---- MODULE Spec2Model ----
(***************************************************************************)
(* Model of the in-browser recommender demos of sophaaz/hserecsys:         *)
(*   week3  - biased matrix factorisation app (data.js, script.js)         *)
(*   week4  - two-tower app and TwoTowerModel (app.js)                     *)
(* Every await of the source is a suspension point: the handler's code up  *)
(* to the next await is one action, and at a suspension point any other    *)
(* handler or continuation may run.                                        *)
(***************************************************************************)
EXTENDS Integers, Sequences, FiniteSets, TLC

VARIABLES
    files,      \* which of the file sets the server serves (fixed for a session)
    data,       \* data.js globals: movies, maps, ratingsTriples, userRatedItems, STATS
    state,      \* script.js `state`
    ui,         \* DOM: button states, status line, results table
    inv,        \* the onTrain invocations and where each is suspended
    calls,      \* number of onTrain invocations started
    loads,      \* number of onLoadData invocations suspended at await loadData()
    hist,       \* history: parameter snapshot taken by onCancel
    tfjs,       \* the TF.js engine under script.js: live variables, values read
    splitRun,   \* makeTrainValSplit / shuffleInt32 run on their own
    recRun,     \* recommendForUser run on its own
    ST,         \* week4 app.js `ST` of the two-tower page
    tt,         \* the two-tower page: buttons, status, handlers in flight
    tw,         \* a TwoTowerModel: parameter and feature versions, item cache
    callers,    \* the calls in flight on that model, and the matrix last served
    unit        \* one function of the sources run on its own: its locals

mfVars == <<files, data, state, ui, inv, calls, loads, hist, tfjs>>

\* what the handlers of the matrix-factorisation page leave alone
notMF == <<splitRun, recRun, ST, tt, tw, callers, unit>>

\* what the split functions run on their own leave alone
notSplit == <<mfVars, recRun, ST, tt, tw, callers, unit>>

\* what recommendForUser run on its own leaves alone
notRec == <<mfVars, splitRun, ST, tt, tw, callers, unit>>

\* what the handlers of the two-tower page leave alone
notTT == <<mfVars, splitRun, recRun, tw, callers, unit>>

\* what the calls on a TwoTowerModel leave alone
notTW == <<mfVars, splitRun, recRun, ST, tt, unit>>

\* what a function run on its own leaves alone
notUnit == <<mfVars, splitRun, recRun, ST, tt, tw, callers>>

vars == <<mfVars, splitRun, recRun, ST, tt, tw, callers, unit>>

(***************************************************************************)
(* Bounds of the model                                                     *)
(***************************************************************************)
MaxCalls == 2       \* onTrain invocations per session
MaxEpochs == 1      \* largest value typed into #param-epochs
MaxLoads == 1       \* onLoadData invocations in flight at once
MaxSplitN == 6      \* ratingsTriples.length when the split functions run alone
RecItems == 3       \* state.I when recommendForUser runs alone
MaxTTLoads == 2     \* clicks on Load Data of the two-tower page per session
MaxTTTrains == 2    \* clicks on Train of the two-tower page per session
MaxTrainSteps == 2  \* trainStep calls on one TwoTowerModel
MaxFeatureSets == 1 \* setFeatures calls after the first on one TwoTowerModel
MaxReaders == 2     \* materializeItemEmbeddings / getTopKForUser calls in flight

(***************************************************************************)
(* Helpers                                                                 *)
(***************************************************************************)
EmptyMap == [x \in {} |-> 0]
MapHas(m, key) == key \in DOMAIN m
MapSet(m, key, v) == [x \in (DOMAIN m) \cup {key} |-> IF x = key THEN v ELSE m[x]]
Min(a, b) == IF a < b THEN a ELSE b
Max(a, b) == IF a > b THEN a ELSE b
CeilDiv(a, b) == (a + b - 1) \div b
Range(arr) == { arr[p] : p \in 1..Len(arr) }

(***************************************************************************)
(* The served files.  A line of u.item is its number of |-separated fields *)
(* and its raw id; a line of u.data is its number of tab-separated fields  *)
(* and userId, itemId, rating.                                             *)
(***************************************************************************)
ItemLine(id) == [fields |-> 24, id |-> id]
ShortItemLine(id) == [fields |-> 5, id |-> id]
RatingLine(u, i, r) == [fields |-> 4, u |-> u, i |-> i, r |-> r]
ShortRatingLine(u) == [fields |-> 2, u |-> u, i |-> 0, r |-> 0]

Catalogue == <<ItemLine(10), ItemLine(20), ShortItemLine(25), ItemLine(30)>>

\* Rows cycle over (user 7, item 10), (user 7, item 20), (user 8, item 10).
CycleLine(n) ==
    CASE n % 3 = 1 -> RatingLine(7, 10, 5)
      [] n % 3 = 2 -> RatingLine(7, 20, 3)
      [] OTHER     -> RatingLine(8, 10, 4)

RatingRows(n) ==
    <<RatingLine(9, 99, 4), ShortRatingLine(7)>> \o [j \in 1..n |-> CycleLine(j)]

\* 73 ratings give 65 training triples: two batches of the smallest batch size.
RowCounts == <<0, 1, 73>>

\* what Number() gives for a raw id that is not a number
NaN == -1

\* Files with repeated and non-numeric raw ids: u.item, then u.data.
OddFiles ==
    << [item |-> <<ItemLine(10), ItemLine(10)>>,
        data |-> <<RatingLine(7, 10, 5)>>],
       [item |-> <<ItemLine(NaN), ItemLine(NaN), ItemLine(10)>>,
        data |-> <<RatingLine(NaN, 10, 4), RatingLine(7, 10, 5)>>],
       [item |-> <<ItemLine(10), ItemLine(20), ItemLine(20), ItemLine(30)>>,
        data |-> <<RatingLine(7, 10, 5), RatingLine(8, 20, 4)>>],
       [item |-> Catalogue,
        data |-> <<RatingLine(7, 10, 5), RatingLine(7, 10, 5), RatingLine(NaN, 20, 3),
                   RatingLine(8, NaN, 3), RatingLine(8, 30, NaN), RatingLine(8, 30, 2)>>] >>

\* ./u.item and ./u.data of file set f
Served(f) ==
    IF f <= Len(RowCounts) THEN [item |-> Catalogue, data |-> RatingRows(RowCounts[f])]
    ELSE OddFiles[f - Len(RowCounts)]

FileSets == 1..Len(RowCounts)


(***************************************************************************)
(* data.js                                                                 *)
(***************************************************************************)
\* The lines the loops keep, then what the loops build from them: a later
\* line with the same raw id overwrites the map entry of an earlier one.
IsItemLine(l) == l.fields >= 5 + 19

parseItems(text) ==
    LET kept == SelectSeq(text, IsItemLine)
    IN  [movies |-> [n \in 1..Len(kept) |-> [rawId |-> kept[n].id, index |-> n - 1]],
         movieIndexByRawId |->
            [id \in { kept[n].id : n \in 1..Len(kept) } |->
                CHOOSE d \in 0..(Len(kept) - 1) :
                    /\ kept[d + 1].id = id
                    /\ \A e \in (d + 1)..(Len(kept) - 1) : kept[e + 1].id # id]]

IsRatingLine(l) == l.fields >= 3

\* line 119: Number.isFinite of rawU, rawI and r
IsFiniteLine(l) == l.u # NaN /\ l.i # NaN /\ l.r # NaN

\* userDenseCounter at the first line of raw user id: the number of users
\* registered by earlier lines
parseRatings(text, movieIndexByRawId) ==
    LET lines == SelectSeq(SelectSeq(text, IsRatingLine), IsFiniteLine)
        First(id) == CHOOSE n \in 1..Len(lines) :
                        /\ lines[n].u = id
                        /\ \A m \in 1..(n - 1) : lines[m].u # id
        rawUsers == { lines[n].u : n \in 1..Len(lines) }
        users == [id \in rawUsers |->
                    Cardinality({ v \in rawUsers : First(v) < First(id) })]
        HasItem(l) == MapHas(movieIndexByRawId, l.i)
        kept == SelectSeq(lines, HasItem)
        triples == [n \in 1..Len(kept) |->
                      [u |-> users[kept[n].u], i |-> movieIndexByRawId[kept[n].i],
                       r |-> kept[n].r]]
    IN  [ratingsTriples |-> triples,
         userIndexByRawId |-> users,
         userRatedItems |->
            [u \in { triples[n].u : n \in 1..Len(triples) } |->
                { triples[n].i : n \in { m \in 1..Len(triples) : triples[m].u = u } }]]

\* ratingsTriples.reduce((s, t) => s + t.r, 0), summed by rating value
RECURSIVE SumRatings(_, _)
SumRatings(triples, values) ==
    IF values = {} THEN 0
    ELSE LET r == CHOOSE x \in values : TRUE
         IN  r * Cardinality({ n \in 1..Len(triples) : triples[n].r = r })
               + SumRatings(triples, values \ {r})

\* STATS.mean in thousandths of a rating point
MeanMilli(triples) ==
    IF Len(triples) = 0 THEN 0
    ELSE (1000 * SumRatings(triples, { triples[n].r : n \in 1..Len(triples) }))
            \div Len(triples)

loadData(f) ==
    LET items == parseItems(f.item)
        rts == parseRatings(f.data, items.movieIndexByRawId)
    IN  [movies |-> items.movies,
         movieIndexByRawId |-> items.movieIndexByRawId,
         userIndexByRawId |-> rts.userIndexByRawId,
         ratingsTriples |-> rts.ratingsTriples,
         userRatedItems |-> rts.userRatedItems,
         STATS |-> [nUsers |-> Cardinality(DOMAIN rts.userIndexByRawId),
                    nItems |-> Len(items.movies),
                    nRatings |-> Len(rts.ratingsTriples),
                    mean |-> MeanMilli(rts.ratingsTriples)]]

NoData ==
    [movies |-> <<>>, movieIndexByRawId |-> EmptyMap, userIndexByRawId |-> EmptyMap,
     ratingsTriples |-> <<>>, userRatedItems |-> EmptyMap,
     STATS |-> [nUsers |-> 0, nItems |-> 0, nRatings |-> 0, mean |-> 0]]

(***************************************************************************)
(* script.js: utilities                                                    *)
(***************************************************************************)
\* The text of an <input>: a number, or something parseInt cannot read.
Field(n) == [ok |-> TRUE, n |-> n]
BadField == [ok |-> FALSE, n |-> 0]

\* clampInt with the bounds left out
clampIntUnbounded(v, min, max, dflt) ==
    IF ~v.ok THEN dflt ELSE v.n

clampInt(v, min, max, dflt) ==
    IF ~v.ok THEN dflt ELSE Max(min, Min(max, v.n))

\* The text typed into an <input>: a sequence of these pieces.
Digits == {"0", "1", "5"}
Pieces == Digits \cup {"-", ".", ",", "e", " ", "Infinity"}

\* the piece at position i, "" past the end
At(t, i) == IF i \in 1..Len(t) THEN t[i] ELSE ""

\* String(v).replace(',', '.'): the first comma only
ReplaceComma(t) ==
    IF \E i \in 1..Len(t) : t[i] = ","
    THEN LET i == CHOOSE i \in 1..Len(t) : t[i] = "," /\ \A j \in 1..(i - 1) : t[j] # ","
         IN  [t EXCEPT ![i] = "."]
    ELSE t

\* the first position that is not white space
FirstNonWs(t) ==
    CHOOSE i \in 1..(Len(t) + 1) : At(t, i) # " " /\ \A j \in 1..(i - 1) : t[j] = " "

\* the length of the run of digits that starts at position i
DigitRun(t, i) ==
    CHOOSE n \in 0..Len(t) :
        /\ \A j \in i..(i + n - 1) : At(t, j) \in Digits
        /\ At(t, i + n) \notin Digits

RECURSIVE DigitsValue(_, _, _)
DigitsValue(t, i, n) ==
    IF n = 0 THEN 0 ELSE DigitsValue(t, i, n - 1) * 10
         + (IF t[i + n - 1] = "0" THEN 0 ELSE IF t[i + n - 1] = "1" THEN 1 ELSE 5)

RECURSIVE Pow10(_)
Pow10(n) == IF n = 0 THEN 1 ELSE 10 * Pow10(n - 1)

\* parseInt(text, 10): white space, a sign, the longest run of digits
parseInt(t) ==
    LET i0 == FirstNonWs(t)
        signed == At(t, i0) \in {"+", "-"}
        i1 == IF signed THEN i0 + 1 ELSE i0
        n == DigitRun(t, i1)
        val == DigitsValue(t, i1, n)
    IN  IF n = 0 THEN BadField
        ELSE Field(IF At(t, i0) = "-" THEN 0 - val ELSE val)

\* the number of decimal digits of m >= 0
RECURSIVE NumDigits(_)
NumDigits(m) == IF m < 10 THEN 1 ELSE 1 + NumDigits(m \div 10)

\* A finite number read by parseFloat: m * 10^e.
Dec(m, e) == [ok |-> TRUE, m |-> m, e |-> e]
\* NaN, Infinity and -Infinity: what Number.isFinite rejects
NotFinite == [ok |-> FALSE, m |-> 0, e |-> 0]

\* parseFloat(text): white space, a sign, then Infinity or
\* digits [. digits] [e [sign] digits]; what follows is ignored.  The
\* number is rounded to a double: above Number.MAX_VALUE
\* (1.7976931348623157e308) it is Infinity, at or below 2^-1075
\* (2.47032822920623e-324) it is 0; lead is the first nine digits of a
\* mantissa of at most nine digits, the number being 0.lead * 10^mag
parseFloat(t) ==
    LET i0 == FirstNonWs(t)
        signed == At(t, i0) \in {"+", "-"}
        i1 == IF signed THEN i0 + 1 ELSE i0
        nInt == DigitRun(t, i1)
        hasDot == At(t, i1 + nInt) = "."
        iF == i1 + nInt + 1
        nFrac == IF hasDot THEN DigitRun(t, iF) ELSE 0
        iE == IF hasDot THEN iF + nFrac ELSE i1 + nInt
        hasE == At(t, iE) \in {"e", "E"}
        eSigned == At(t, iE + 1) \in {"+", "-"}
        iX == IF eSigned THEN iE + 2 ELSE iE + 1
        nExp == IF hasE THEN DigitRun(t, iX) ELSE 0
        exp == LET x == DigitsValue(t, iX, nExp)
               IN  IF At(t, iE + 1) = "-" THEN 0 - x ELSE x
        abs == DigitsValue(t, i1, nInt) * Pow10(nFrac) + DigitsValue(t, iF, nFrac)
        digits == IF abs < 10 THEN 1 ELSE 1 + NumDigits(abs \div 10)
        mag == digits + exp - nFrac
        lead == IF digits <= 9 THEN abs * Pow10(9 - digits) ELSE abs \div 10
        overflows == abs > 0 /\ (mag > 309 \/ (mag = 309 /\ lead >= 179769314))
        underflows == abs > 0 /\ (mag < 0 - 323 \/ (mag = 0 - 323 /\ lead <= 247032822))
    IN  IF At(t, i1) = "Infinity" \/ nInt + nFrac = 0 \/ overflows THEN NotFinite
        ELSE IF underflows THEN Dec(0, 0)
        ELSE Dec(IF At(t, i0) = "-" THEN 0 - abs ELSE abs, exp - nFrac)

\* the order of two finite numbers m * 10^e
Abs(x) == IF x < 0 THEN -x ELSE x
Less(a, b) ==
    LET Sign(x) == IF x.m > 0 THEN 1 ELSE IF x.m < 0 THEN 0 - 1 ELSE 0
        Magnitude(x) == NumDigits(Abs(x.m)) + x.e
        AbsLess(x, y) ==
            IF Magnitude(x) # Magnitude(y) THEN Magnitude(x) < Magnitude(y)
            ELSE LET lo == Min(x.e, y.e)
                 IN  Abs(x.m) * Pow10(x.e - lo) < Abs(y.m) * Pow10(y.e - lo)
    IN  IF Sign(a) # Sign(b) THEN Sign(a) < Sign(b)
        ELSE IF Sign(a) = 0 THEN FALSE
        ELSE IF Sign(a) = 1 THEN AbsLess(a, b) ELSE AbsLess(b, a)

\* Math.max(min, Math.min(max, n))
clampFloat(v, min, max, dflt) ==
    IF ~v.ok THEN dflt
    ELSE LET least == IF Less(max, v) THEN max ELSE v
         IN  IF Less(least, min) THEN min ELSE least

EpochFields == { Field(n) : n \in 0..MaxEpochs }
BatchFields == { Field(1), BadField }

\* Lengths of trainIdx and valIdx for n triples and trainFrac = num / den.
SplitLens(n, num, den) ==
    LET nTrain == (n * num) \div den
    IN  [trainLen |-> nTrain, valLen |-> n - nTrain]

\* an onTrain that does not check the split
SplitIsEmptyNever(split) == FALSE

SplitIsEmpty(split) == split.trainLen = 0 \/ split.valLen = 0

(***************************************************************************)
(* script.js: recommendForUser.  Values are thousandths of a rating point. *)
(***************************************************************************)
\* tf.clipByValue, line 395: NaN stays NaN
clipByValue(x, lo, hi) == IF x = NaN THEN NaN ELSE Max(lo, Min(hi, x))

Seen(userRatedItems, u) == IF MapHas(userRatedItems, u) THEN userRatedItems[u] ELSE {}

\* a recommendForUser that keeps the items the user has rated
IsCandidateAll(seen, i) == TRUE

IsCandidate(seen, i) == i \notin seen

\* lines 388-393: dot + bi + bu + mu of item i; NaN, which the parameters
\* of a diverged run hold, makes the sum NaN
base(par, i) ==
    IF NaN \in {par.dot[i], par.bi[i], par.bu, par.mu} THEN NaN
    ELSE par.dot[i] + par.bi[i] + par.bu + par.mu

\* candidates in item order, before the sort
RECURSIVE Candidates(_, _, _, _, _)
Candidates(u, seen, numItems, par, i) ==
    IF i >= numItems THEN <<>>
    ELSE LET rest == Candidates(u, seen, numItems, par, i + 1)
         IN  IF ~IsCandidate(seen, i) THEN rest
             ELSE <<[rank |-> 0, u |-> u, i |-> i,
                     pred |-> clipByValue(base(par, i), 1000, 5000),
                     parts |-> [mu |-> par.mu, bu |-> par.bu,
                                bi |-> par.bi[i], dot |-> par.dot[i]]]>> \o rest

\* Array.prototype.sort with (a, b) => b.pred - a.pred where the comparison
\* is consistent: stable, descending.  A difference that is NaN counts as 0,
\* so a NaN prediction is equal to every other.
RECURSIVE SortByPred(_)
SortByPred(c) ==
    IF Len(c) = 0 THEN <<>>
    ELSE LET above(x, y) == x # NaN /\ y # NaN /\ x > y
             best == CHOOSE j \in 1..Len(c) :
                        /\ \A m \in 1..Len(c) : ~above(c[m].pred, c[j].pred)
                        /\ \A m \in 1..(j - 1) : above(c[j].pred, c[m].pred)
             rest == [m \in 1..(Len(c) - 1) |-> IF m < best THEN c[m] ELSE c[m + 1]]
         IN  <<c[best]>> \o SortByPred(rest)

\* line 433: the orders the sort can leave.  With a NaN prediction among
\* different finite ones the comparison is not consistent (NaN equals both
\* of two predictions that differ), and the order is the engine's choice.
SortOutcomes(c) ==
    LET preds == { c[n].pred : n \in 1..Len(c) }
    IN  IF NaN \notin preds \/ Cardinality(preds \ {NaN}) <= 1
        THEN {SortByPred(c)}
        ELSE { [n \in 1..Len(c) |-> c[p[n]]] :
                 p \in { f \in [1..Len(c) -> 1..Len(c)] :
                           \A a, b \in 1..Len(c) : a # b => f[a] # f[b] } }

Ranked(c) == [r \in 1..Len(c) |-> [c[r] EXCEPT !.rank = r]]

\* the lists the call can return
recommendForUser(u, topN, userRatedItems, numItems, par) ==
    { SubSeq(Ranked(sorted), 1, Min(topN, Len(sorted))) :
        sorted \in SortOutcomes(Candidates(u, Seen(userRatedItems, u), numItems, par, 0)) }

(***************************************************************************)
(* script.js: the training loop.  An invocation record r holds the locals  *)
(* of one onTrain call and the await it is suspended at; s is `state`.     *)
(* Each operator runs the code from one point up to the next await and     *)
(* returns the new record and whether optimizer.minimize ran.              *)
(***************************************************************************)
\* tensors: the tensors the call has created and not disposed, by the name
\* of the local that holds them ("sq" and "sse" are the unnamed results of
\* tf.mul(err, err) and tf.sum(...) of line 342); startSteps: the updates the
\* optimizer had applied when the call entered trainLoop; nonFiniteLoss: a
\* batch loss read by the call was NaN or infinite; sinceYield: the
\* optimizer steps of the call since its last await tf.nextFrame();
\* covered: the sum of end - start over the batches of the current epoch;
\* skipped: a check of state.stopRequested ended a loop of the call that had
\* batches left to run
IdleInv ==
    [pc |-> "idle", epoch |-> 0, step |-> 0, nTrain |-> 0, stepsPerEpoch |-> 0,
     valLen |-> 0, offset |-> 0, outcome |-> "none",
     stepped |-> FALSE, validated |-> FALSE, emptySeen |-> FALSE, cancelSeen |-> FALSE,
     tensors |-> {}, startSteps |-> 0, nonFiniteLoss |-> FALSE, sinceYield |-> 0,
     covered |-> 0, skipped |-> FALSE]

\* buildBatch, lines 309-311
BatchTensors == {"uBatch", "iBatch", "rBatch"}

\* lines 339-342: the batch, pred, err, and the product and the sum passed
\* to data()
ChunkTensors == BatchTensors \cup {"pred", "err", "sq", "sse"}

\* lines 346-347: what computeSplitRMSE disposes after a chunk
ChunkDisposed == BatchTensors \cup {"pred", "err"}

InLoop(r) == r.pc \in {"mseData", "frame", "valData", "valFrame"}

\* lines 160-175: what onTrain does when trainLoop returns or throws
trainLoopReturns(r, s) ==
    [r |-> [r EXCEPT !.pc = "done",
                     !.outcome = IF ~s.stopRequested THEN "complete" ELSE "cancelled"],
     min |-> FALSE]

trainLoopThrows(r) ==
    [r |-> [r EXCEPT !.pc = "done", !.outcome = "error"], min |-> FALSE]

RECURSIVE trainLoopEpoch(_, _)
RECURSIVE trainLoopStep(_, _)
RECURSIVE computeSplitRMSE(_, _)

\* head of the epoch loop (lines 230-236)
trainLoopEpoch(r, s) ==
    IF r.epoch <= s.epochs /\ ~s.stopRequested
    THEN trainLoopStep([r EXCEPT !.step = 0, !.covered = 0], s)
    ELSE trainLoopReturns([r EXCEPT !.skipped = @ \/ r.epoch <= s.epochs], s)

\* head of the step loop up to await batchMSE.data() (lines 238-273)
trainLoopStep(r, s) ==
    IF r.step < r.stepsPerEpoch /\ ~s.stopRequested
    THEN LET start == r.step * s.batchSize
             end == Min(r.nTrain, start + s.batchSize)
         IN  IF end - start < 0
             THEN trainLoopThrows(r)     \* new Int32Array(B) with B < 0
             ELSE IF s.optimizer.gen = 0 \* state.optimizer is null at line 248
             THEN trainLoopThrows([r EXCEPT !.tensors = @ \cup BatchTensors])
             ELSE [r |-> [r EXCEPT !.pc = "mseData", !.stepped = TRUE,
                                   !.sinceYield = @ + 1,
                                   !.covered = @ + (end - start),
                                   !.tensors = @ \cup BatchTensors \cup {"batchMSE"}],
                   min |-> TRUE]
    ELSE computeSplitRMSE([r EXCEPT !.skipped = @ \/ r.step < r.stepsPerEpoch], s)

\* one chunk of computeSplitRMSE, lines 339-342: up to the await of data(),
\* or tf.gather throws in predictBatch because state.P is null
computeChunk(r, s) ==
    IF s.P.gen = 0
    THEN trainLoopThrows([r EXCEPT !.tensors = @ \cup BatchTensors])
    ELSE [r |-> [r EXCEPT !.pc = "valData", !.tensors = @ \cup ChunkTensors],
          min |-> FALSE]

\* entry of computeSplitRMSE(state.split.valIdx, 4096) up to its first await
computeSplitRMSE(r, s) ==
    IF s.split.valLen = 0
    THEN trainLoopEpoch([r EXCEPT !.epoch = @ + 1], s)
    ELSE computeChunk([r EXCEPT !.offset = 0, !.valLen = s.split.valLen,
                                !.validated = TRUE], s)

\* trainLoop from its first line
trainLoop(r, s) ==
    LET nTrain == s.split.trainLen
        stepsPerEpoch == CeilDiv(nTrain, s.batchSize)
    IN  trainLoopEpoch([r EXCEPT !.nTrain = nTrain, !.stepsPerEpoch = stepsPerEpoch,
                                 !.epoch = 1, !.startSteps = s.optimizer.steps], s)

\* the effect on `state` of running up to the next await
StateAfter(s, eff) ==
    [s EXCEPT !.P = IF eff.min THEN [@ EXCEPT !.ver = @ + 1] ELSE @,
              !.optimizer = IF eff.min THEN [@ EXCEPT !.steps = @ + 1] ELSE @,
              !.trained = IF eff.r.outcome = "complete" THEN TRUE ELSE @]

\* the effect on the page of running up to the next await (lines 160-175)
UiAfter(u, eff) ==
    CASE eff.r.outcome = "complete" ->
            [u EXCEPT !.status = "Training complete", !.recDisabled = FALSE,
                      !.cancelDisabled = TRUE]
      [] eff.r.outcome = "cancelled" ->
            [u EXCEPT !.status = "Training canceled.", !.trainDisabled = FALSE,
                      !.cancelDisabled = TRUE]
      [] eff.r.outcome = "error" ->
            [u EXCEPT !.status = "Training error", !.trainDisabled = FALSE,
                      !.cancelDisabled = TRUE]
      [] OTHER -> u

\* the effect on the engine's counters of running up to the next await:
\* sinceFrame counts the optimizer steps executed since a loop last reached
\* an await tf.nextFrame()
TfjsAfter(t, eff) ==
    [t EXCEPT !.sinceFrame = IF eff.r.pc \in {"frame", "valFrame"} THEN 0
                             ELSE IF eff.min THEN @ + 1 ELSE @]

\* state.P = ... = null is generation 0
NoParams == [gen |-> 0, ver |-> 0, mu |-> 0]

\* state.optimizer = null
NoOptimizer == [gen |-> 0, steps |-> 0]

disposeModel(s) == [s EXCEPT !.P = NoParams, !.optimizer = NoOptimizer, !.trained = FALSE]

\* the variables lines 196-201 dispose: those state.P, Q, bu, bi, mu and the
\* optimizer refer to, if any
Disposed(s) == { s.P.gen, s.optimizer.gen } \ {0}

\* fresh variables: a new generation, no optimizer step applied yet
buildModel(s, gen, mean) ==
    [s EXCEPT !.P = [gen |-> gen, ver |-> 0, mu |-> mean],
              !.optimizer = [gen |-> gen, steps |-> 0]]

makeTrainValSplit(s, n) == [s EXCEPT !.split = SplitLens(n, 9, 10)]

(***************************************************************************)
(* The matrix-factorisation page: initial state and handlers               *)
(***************************************************************************)
\* Contents of the tensors when the page reads them, in thousandths: the
\* user's bias, and one item bias and one dot product for every item.
BuVals == {0, 900}
BiVals == {800}
DotVals == {-300}
TopNFields == { Field(1), BadField }

InitState ==
    [loaded |-> FALSE, trained |-> FALSE, stopRequested |-> FALSE, U |-> 0, I |-> 0,
     epochs |-> 15, batchSize |-> 2048, split |-> [trainLen |-> 0, valLen |-> 0],
     P |-> NoParams, optimizer |-> NoOptimizer]

\* TF.js before any tensor exists.  nonFinite: the arithmetic of this
\* session can produce a batch loss that is NaN or infinite.
NewEngine == [nonFinite |-> FALSE, variables |-> {}, sinceFrame |-> 0]

\* what (await batchMSE.data())[0] can be
LossReads(t) == IF t.nonFinite THEN {"finite", "nonFinite"} ELSE {"finite"}

\* line 281
YieldsAfter(step) == step % 2 = 1

\* index.html is not part of the sources: the buttons' initial disabled
\* attributes are any combination.
InitMF ==
    /\ files \in FileSets
    /\ data = NoData
    /\ state = InitState
    /\ \E t \in BOOLEAN, c \in BOOLEAN, r \in BOOLEAN :
          ui = [trainDisabled |-> t, cancelDisabled |-> c, recDisabled |-> r,
                status |-> "Waiting to load", recs |-> <<>>]
    /\ inv = [k \in 1..MaxCalls |-> IdleInv]
    /\ calls = 0
    /\ loads = 0
    /\ hist = [paramsAtCancel |-> NoParams, built |-> 0]
    /\ tfjs = NewEngine

IdleSplit == [pc |-> "idle", n |-> 0, num |-> 0, den |-> 1,
              trainIdx |-> <<>>, valIdx |-> <<>>, shuffled |-> FALSE]

\* new TwoTowerModel(...) followed by setFeatures: lines 1851-1891
\* disposed: dispose() has released the variables of the instance;
\* cacheDisposed: _cachedItemEmb holds a tensor that has been disposed
NewModel(numItems) ==
    [numItems |-> numItems, paramVer |-> 0, featVer |-> 0, featureSets |-> 0,
     cachedItemEmb |-> <<>>, hasCache |-> FALSE, cacheDirty |-> TRUE,
     disposed |-> FALSE, cacheDisposed |-> FALSE]

\* a call not made.  In getTopKForUser after materializeItemEmbeddings has
\* resolved, chunks is the matrix it resolved with, the cached tensor, and
\* disposed tells that the tensor has been disposed since
IdleReader == [pc |-> "idle", kind |-> "none", start |-> 0, chunks |-> <<>>,
               disposed |-> FALSE]

NoCallers ==
    [trainPc |-> "idle", trainSteps |-> 0,
     readers |-> [r \in 1..MaxReaders |-> IdleReader],
     served |-> [kind |-> "none", matrix |-> <<>>, at |-> [p |-> 0, f |-> 0]]]

\* no model in use
IdleTW == tw = NewModel(0) /\ callers = NoCallers

\* ST.model = null.  gen numbers the TwoTowerModel instances; optSteps is
\* the number of updates the instance's optimizer has applied.
\* cached: the instance holds item embeddings it takes for current
NoModel == [built |-> FALSE, numUsers |-> 0, numItems |-> 0, gen |-> 0, optSteps |-> 0,
            cached |-> FALSE]

\* a click on Load Data not yet made.  pc is the handler, items and ratings
\* are loadItems() and loadRatings() of that click
IdleLoad == [pc |-> "idle", items |-> "idle", ratings |-> "idle"]

\* no call of materializeItemEmbeddings awaited by the Test handler
NoRead == [gen |-> 0, numItems |-> 0]

\* a call of train() not yet made.  startSteps: the updates the optimizer
\* of ST.model had applied when the call entered its epoch loop
IdleTrain == [pc |-> "idle", steps |-> 0, startSteps |-> 0]

InitST ==
    [items |-> {}, interactionsRaw |-> <<>>, userMap |-> EmptyMap, revUser |-> <<>>,
     itemMap |-> EmptyMap, revItem |-> <<>>, positives |-> <<>>, userSeen |-> EmptyMap,
     itemSum |-> <<>>, itemCnt |-> <<>>,
     model |-> NoModel]

IdlePage ==
    [files |-> 1, loadsStarted |-> 0,
     loads |-> [k \in 1..MaxTTLoads |-> IdleLoad], testPc |-> "idle",
     runs |-> [k \in 1..MaxTTTrains |-> IdleTrain], trainsStarted |-> 0,
     liveModels |-> {},
     testUser |-> 0, testUIdx |-> 0, testSeen |-> {}, testK |-> 0, testRead |-> NoRead,
     loadDisabled |-> TRUE, trainDisabled |-> TRUE, testDisabled |-> TRUE,
     status |-> "", deep |-> <<>>, deepUser |-> 0]

\* no function is run on its own
IdleUnit == [pc |-> "idle"]

\* the page untouched
IdleTT == ST = InitST /\ tt = IdlePage /\ IdleTW

\* the page untouched, for the runs of single functions
IdleMF ==
    /\ files = 1 /\ data = NoData /\ state = InitState
    /\ ui = [trainDisabled |-> TRUE, cancelDisabled |-> TRUE, recDisabled |-> TRUE,
             status |-> "Waiting to load", recs |-> <<>>]
    /\ inv = [k \in 1..MaxCalls |-> IdleInv]
    /\ calls = 0 /\ loads = 0
    /\ hist = [paramsAtCancel |-> NoParams, built |-> 0]
    /\ tfjs = NewEngine

IdleRec == [pc |-> "idle", topN |-> 0, seen |-> {}, recs |-> <<>>,
            par |-> [mu |-> 0, bu |-> 0, bi |-> <<>>, dot |-> <<>>]]

\* click on Load Data: onLoadData up to await loadData()
OnLoadClick ==
    /\ loads < MaxLoads
    /\ loads' = loads + 1
    /\ ui' = [ui EXCEPT !.status = "Loading files"]
    /\ UNCHANGED <<files, data, state, inv, calls, hist, tfjs, notMF>>

\* loadData() resolves: parse both files, then lines 94-112
LoadDone ==
    /\ loads > 0
    /\ loads' = loads - 1
    /\ data' = loadData(Served(files))
    /\ state' = [state EXCEPT !.loaded = TRUE,
                              !.U = Cardinality(DOMAIN data'.userIndexByRawId),
                              !.I = Cardinality(DOMAIN data'.movieIndexByRawId)]
    /\ ui' = [ui EXCEPT !.status = "Data loaded", !.trainDisabled = FALSE]
    /\ UNCHANGED <<files, inv, calls, hist, tfjs, notMF>>

\* a fetch fails: loadData() throws before parsing (lines 113-116)
LoadFail ==
    /\ loads > 0
    /\ loads' = loads - 1
    /\ ui' = [ui EXCEPT !.status = "Error while loading data"]
    /\ UNCHANGED <<files, data, state, inv, calls, hist, tfjs, notMF>>

\* click on Train before any load: lines 121-124
OnTrainNotLoaded ==
    /\ ~ui.trainDisabled
    /\ ~state.loaded
    /\ ui' = [ui EXCEPT !.status = "Load data first."]
    /\ UNCHANGED <<files, data, state, inv, calls, loads, hist, tfjs, notMF>>

\* click on Train: onTrain up to await tf.ready() (lines 121-127)
OnTrainClick ==
    /\ ~ui.trainDisabled
    /\ state.loaded
    /\ calls < MaxCalls
    /\ calls' = calls + 1
    /\ inv' = [inv EXCEPT ![calls + 1].pc = "ready"]
    /\ UNCHANGED <<files, data, state, ui, loads, hist, tfjs, notMF>>

\* tf.ready() resolves: lines 128-159 up to the first await of trainLoop
ResumeReady(k) ==
    /\ inv[k].pc = "ready"
    /\ \E eF \in EpochFields, bF \in BatchFields :
         LET s1 == [state EXCEPT !.epochs = clampInt(eF, 1, 100, 15),
                                 !.batchSize = clampInt(bF, 64, 4096, 2048)]
             s2 == buildModel(disposeModel(s1), hist.built + 1, data.STATS.mean)
             s3 == makeTrainValSplit(s2, Len(data.ratingsTriples))
             s4 == [s3 EXCEPT !.stopRequested = FALSE]
             made == s3.split.trainLen = 0 \/ s3.split.valLen = 0
             eff == trainLoop([inv[k] EXCEPT !.emptySeen = made], s4)
             built == [tfjs EXCEPT !.variables = (@ \ Disposed(s1)) \cup {hist.built + 1}]
         IN  /\ hist' = [hist EXCEPT !.built = @ + 1]
             /\ IF SplitIsEmpty(s3.split)
                THEN /\ state' = s3
                     /\ tfjs' = built
                     /\ ui' = [ui EXCEPT !.status = "Train/val split is empty",
                                         !.trainDisabled = FALSE, !.cancelDisabled = TRUE]
                     /\ inv' = [inv EXCEPT ![k].pc = "done", ![k].outcome = "emptySplit",
                                           ![k].emptySeen = TRUE]
                ELSE /\ state' = StateAfter(s4, eff)
                     /\ tfjs' = TfjsAfter(built, eff)
                     /\ ui' = UiAfter([ui EXCEPT !.status = "Starting training",
                                                 !.cancelDisabled = FALSE,
                                                 !.trainDisabled = TRUE,
                                                 !.recDisabled = TRUE], eff)
                     /\ inv' = [inv EXCEPT ![k] = eff.r]
    /\ UNCHANGED <<files, data, calls, loads, notMF>>

\* batchMSE.data() resolves: lines 274-281, then the next step if no yield
ResumeMseData(k) ==
    /\ inv[k].pc = "mseData"
    /\ \E mseVal \in LossReads(tfjs) :
         LET r1 == [inv[k] EXCEPT !.tensors = @ \ {"batchMSE"},
                                  !.nonFiniteLoss = @ \/ mseVal = "nonFinite"]
             eff == IF YieldsAfter(r1.step)
                    THEN [r |-> [r1 EXCEPT !.pc = "frame", !.sinceYield = 0], min |-> FALSE]
                    ELSE trainLoopStep([r1 EXCEPT !.step = @ + 1,
                                                  !.tensors = @ \ BatchTensors], state)
         IN  /\ inv' = [inv EXCEPT ![k] = eff.r]
             /\ state' = StateAfter(state, eff)
             /\ tfjs' = TfjsAfter(tfjs, eff)
             /\ ui' = UiAfter(ui, eff)
    /\ UNCHANGED <<files, data, calls, loads, hist, notMF>>

\* tf.nextFrame() of line 281 resolves: line 284, then the next step
ResumeFrame(k) ==
    /\ inv[k].pc = "frame"
    /\ LET eff == trainLoopStep([inv[k] EXCEPT !.step = @ + 1,
                                               !.tensors = @ \ BatchTensors], state)
       IN  /\ inv' = [inv EXCEPT ![k] = eff.r]
           /\ state' = StateAfter(state, eff)
           /\ tfjs' = TfjsAfter(tfjs, eff)
           /\ ui' = UiAfter(ui, eff)
    /\ UNCHANGED <<files, data, calls, loads, hist, notMF>>

\* the sum's data() in computeSplitRMSE resolves: lines 343-348
ResumeValData(k) ==
    /\ inv[k].pc = "valData"
    /\ inv' = [inv EXCEPT ![k].pc = "valFrame", ![k].sinceYield = 0,
                          ![k].tensors = @ \ ChunkDisposed]
    /\ tfjs' = [tfjs EXCEPT !.sinceFrame = 0]
    /\ UNCHANGED <<files, data, state, ui, calls, loads, hist, notMF>>

\* tf.nextFrame() of line 348 resolves: next chunk, or lines 351, 290 and
\* the next epoch
ResumeValFrame(k) ==
    /\ inv[k].pc = "valFrame"
    /\ LET offset == inv[k].offset + 4096
           eff == IF offset < inv[k].valLen
                  THEN computeChunk([inv[k] EXCEPT !.offset = offset], state)
                  ELSE trainLoopEpoch([inv[k] EXCEPT !.epoch = @ + 1], state)
       IN  /\ inv' = [inv EXCEPT ![k] = eff.r]
           /\ state' = StateAfter(state, eff)
           /\ tfjs' = TfjsAfter(tfjs, eff)
           /\ ui' = UiAfter(ui, eff)
    /\ UNCHANGED <<files, data, calls, loads, hist, notMF>>

\* click on Cancel (lines 178-180); hist keeps the parameters at that moment
OnCancel ==
    /\ ~ui.cancelDisabled
    /\ state' = [state EXCEPT !.stopRequested = TRUE]
    /\ hist' = [hist EXCEPT !.paramsAtCancel = state.P]
    /\ inv' = [k \in 1..MaxCalls |->
                 IF InLoop(inv[k]) THEN [inv[k] EXCEPT !.cancelSeen = TRUE] ELSE inv[k]]
    /\ UNCHANGED <<files, data, ui, calls, loads, tfjs, notMF>>

\* the page is about to be left (line 512): disposeModel, lines 194-206.
\* The handlers that wait go on if the page stays.
OnBeforeUnload ==
    /\ state' = disposeModel(state)
    /\ tfjs' = [tfjs EXCEPT !.variables = @ \ Disposed(state)]
    /\ UNCHANGED <<files, data, ui, inv, calls, loads, hist, notMF>>

\* click on Recommend (lines 355-374).  The tensors' contents are any
\* values; with state.P null, tf.gather throws in recommendForUser (line
\* 382) and the handler ends with the page as it was.
OnRecommend ==
    /\ ~ui.recDisabled
    /\ IF ~state.trained
       THEN ui' = [ui EXCEPT !.status = "Train the model first."]
       ELSE \E rawU \in {0} \cup DOMAIN data.userIndexByRawId, topF \in TopNFields :
              IF rawU = 0
              THEN ui' = [ui EXCEPT !.status = "Select a user first."]
              ELSE IF state.P.gen = 0
              THEN ui' = ui
              ELSE \E bu \in BuVals, b \in BiVals, d \in DotVals :
                     \E recs \in recommendForUser(
                                    data.userIndexByRawId[rawU],
                                    clampInt(topF, 1, 50, 10),
                                    data.userRatedItems, state.I,
                                    [mu |-> state.P.mu, bu |-> bu,
                                     bi |-> [i \in 0..(state.I - 1) |-> b],
                                     dot |-> [i \in 0..(state.I - 1) |-> d]]) :
                        ui' = [ui EXCEPT !.recs = recs]
    /\ UNCHANGED <<files, data, state, inv, calls, loads, hist, tfjs, notMF>>

NextMF ==
    \/ OnLoadClick
    \/ LoadDone
    \/ LoadFail
    \/ OnTrainNotLoaded
    \/ OnTrainClick
    \/ \E k \in 1..MaxCalls : ResumeReady(k)
    \/ \E k \in 1..MaxCalls : ResumeMseData(k)
    \/ \E k \in 1..MaxCalls : ResumeFrame(k)
    \/ \E k \in 1..MaxCalls : ResumeValData(k)
    \/ \E k \in 1..MaxCalls : ResumeValFrame(k)
    \/ OnCancel
    \/ OnBeforeUnload
    \/ OnRecommend

Init ==
    /\ InitMF
    /\ splitRun = IdleSplit
    /\ recRun = IdleRec
    /\ IdleTT
    /\ unit = IdleUnit

Spec == Init /\ [][NextMF]_vars

(***************************************************************************)
(* The page without its Recommend button, on the longest u.data, Cancel    *)
(* disabled at load, and with arithmetic in which a batch loss may come    *)
(* out finite or not                                                       *)
(***************************************************************************)
InitRun ==
    /\ files = Len(RowCounts)
    /\ data = NoData
    /\ state = InitState
    /\ \E t \in BOOLEAN :
          ui = [trainDisabled |-> t, cancelDisabled |-> TRUE, recDisabled |-> TRUE,
                status |-> "Waiting to load", recs |-> <<>>]
    /\ inv = [k \in 1..MaxCalls |-> IdleInv]
    /\ calls = 0
    /\ loads = 0
    /\ hist = [paramsAtCancel |-> NoParams, built |-> 0]
    /\ tfjs = [NewEngine EXCEPT !.nonFinite = TRUE]
    /\ splitRun = IdleSplit
    /\ recRun = IdleRec
    /\ IdleTT
    /\ unit = IdleUnit

NextRun ==
    \/ OnLoadClick
    \/ LoadDone
    \/ LoadFail
    \/ OnTrainNotLoaded
    \/ OnTrainClick
    \/ \E k \in 1..MaxCalls : ResumeReady(k)
    \/ \E k \in 1..MaxCalls : ResumeMseData(k)
    \/ \E k \in 1..MaxCalls : ResumeFrame(k)
    \/ \E k \in 1..MaxCalls : ResumeValData(k)
    \/ \E k \in 1..MaxCalls : ResumeValFrame(k)
    \/ OnCancel
    \/ OnBeforeUnload

SpecRun == InitRun /\ [][NextRun]_vars

(***************************************************************************)
(* script.js: makeTrainValSplit and shuffleInt32 on index arrays.  An      *)
(* Int32Array of length n is a sequence; position p of the array is        *)
(* element p + 1 of the sequence.                                          *)
(***************************************************************************)
\* a swap that forgets the temporary: arr[i] = arr[j] only
SwapLossy(arr, i, j) == [arr EXCEPT ![i + 1] = arr[j + 1]]

\* const t = arr[i]; arr[i] = arr[j]; arr[j] = t
Swap(arr, i, j) == [arr EXCEPT ![i + 1] = arr[j + 1], ![j + 1] = arr[i + 1]]

\* every array the loop `for (i = start; i > 0; i--)` can leave, j being
\* (Math.random() * (i + 1)) | 0, any of 0..i
RECURSIVE FisherYates(_, _)
FisherYates(arr, i) ==
    IF i <= 0 THEN {arr}
    ELSE UNION { FisherYates(Swap(arr, i, j), i - 1) : j \in 0..i }

shuffleInt32(arr) == FisherYates(arr, Len(arr) - 1)

\* idx.slice(from, to)
Slice(arr, from, to) == SubSeq(arr, from + 1, to)

\* every split makeTrainValSplit can make of n triples, trainFrac = num / den
makeTrainValSplitIdx(n, num, den) ==
    LET idx == [t \in 1..n |-> t - 1]
        nTrain == (n * num) \div den
    IN  { [trainIdx |-> Slice(shuffled, 0, nTrain), valIdx |-> Slice(shuffled, nTrain, n)] :
            shuffled \in FisherYates(idx, n - 1) }

\* trainFrac in (0, 1): 0.9, 0.5 and a third
TrainFracs == { [num |-> 9, den |-> 10], [num |-> 1, den |-> 2], [num |-> 1, den |-> 3] }

InitSplit ==
    /\ \E n \in 0..MaxSplitN, f \in TrainFracs :
          splitRun = [IdleSplit EXCEPT !.pc = "start", !.n = n, !.num = f.num, !.den = f.den]
    /\ IdleMF
    /\ recRun = IdleRec
    /\ IdleTT
    /\ unit = IdleUnit

MakeTrainValSplit ==
    /\ splitRun.pc = "start"
    /\ \E sp \in makeTrainValSplitIdx(splitRun.n, splitRun.num, splitRun.den) :
          splitRun' = [splitRun EXCEPT !.pc = "split", !.trainIdx = sp.trainIdx,
                                       !.valIdx = sp.valIdx]
    /\ UNCHANGED notSplit

\* line 233: shuffleInt32(state.split.trainIdx), once per epoch
ShuffleInt32 ==
    /\ splitRun.pc = "split"
    /\ \E arr \in shuffleInt32(splitRun.trainIdx) :
          splitRun' = [splitRun EXCEPT !.trainIdx = arr, !.shuffled = TRUE]
    /\ UNCHANGED notSplit

NextSplit == MakeTrainValSplit \/ ShuffleInt32

SpecSplit == InitSplit /\ [][NextSplit]_vars

\* C4: after makeTrainValSplit, and after every shuffleInt32 of trainIdx,
\* trainIdx and valIdx have no index in common and none twice, together hold
\* exactly the indices 0..N-1, and trainIdx has floor(N * trainFrac) entries.
C4_SplitIsPartition ==
    splitRun.pc = "split" =>
        /\ Range(splitRun.trainIdx) \cap Range(splitRun.valIdx) = {}
        /\ Range(splitRun.trainIdx) \cup Range(splitRun.valIdx) = 0..(splitRun.n - 1)
        /\ Len(splitRun.trainIdx) + Len(splitRun.valIdx) = splitRun.n
        /\ Len(splitRun.trainIdx) = (splitRun.n * splitRun.num) \div splitRun.den

\* a split of the largest array with both halves non-empty, whose training
\* half has been reshuffled into another order than the identity's
C4_Witness ==
    /\ splitRun.pc = "split"
    /\ splitRun.shuffled
    /\ splitRun.n = MaxSplitN
    /\ Len(splitRun.trainIdx) >= 2
    /\ Len(splitRun.valIdx) >= 1
    /\ splitRun.trainIdx[1] > splitRun.trainIdx[2]

(***************************************************************************)
(* script.js: recommendForUser on tensors of any contents                  *)
(***************************************************************************)
MuVals == {1200, 3500}
BuReadVals == {-500, 900, NaN}
BiReadVals == {-800, 0, 800, NaN}
DotReadVals == {-300, 300}

\* the rated set holds indices of movies; the index RecItems is that of a
\* later line of a repeated raw id, which state.I, the number of distinct
\* raw ids, does not count (parseItems, data.js:90; script.js:96)
InitRec ==
    /\ \E mu \in MuVals, bu \in BuReadVals,
          bi \in [0..(RecItems - 1) -> BiReadVals],
          dot \in [0..(RecItems - 1) -> DotReadVals],
          seen \in SUBSET (0..RecItems), topF \in TopNFields \cup {Field(2)} :
          recRun = [pc |-> "start", topN |-> clampInt(topF, 1, 50, 10), seen |-> seen,
                    recs |-> <<>>,
                    par |-> [mu |-> mu, bu |-> bu, bi |-> bi, dot |-> dot]]
    /\ IdleMF
    /\ splitRun = IdleSplit
    /\ IdleTT
    /\ unit = IdleUnit

\* recommendForUser(0, topN) with userRatedItems = {0 -> seen}, or no entry
\* for user 0 when seen is empty
RecommendForUser ==
    /\ recRun.pc = "start"
    /\ \E recs \in recommendForUser(0, recRun.topN,
                                    IF recRun.seen = {} THEN EmptyMap
                                    ELSE MapSet(EmptyMap, 0, recRun.seen),
                                    RecItems, recRun.par) :
          recRun' = [recRun EXCEPT !.pc = "done", !.recs = recs]
    /\ UNCHANGED notRec

NextRec == RecommendForUser

SpecRec == InitRec /\ [][NextRec]_vars

\* C7: in every entry recommendForUser returns, pred differs from
\* mu + bu + bi + dot of its parts by at most 1e-3 (one thousandth).
C7_PartsSumToPred ==
    \A n \in 1..Len(recRun.recs) :
        LET e == recRun.recs[n]
        IN  /\ NaN \notin {e.parts.mu, e.parts.bu, e.parts.bi, e.parts.dot, e.pred}
            /\ Abs(e.parts.mu + e.parts.bu + e.parts.bi + e.parts.dot - e.pred) <= 1

(***************************************************************************)
(* week4 app.js, first revision of the two-tower page (lines 1-558)        *)
(***************************************************************************)
TopK == 10      \* CONFIG.topK
PcaItems == 500 \* CONFIG.pcaItems

\* data/u.item and data/u.data served to the two-tower page; file set 2
\* opens with a rating below every positive threshold
TTItemLines == <<ItemLine(20), ItemLine(10), ShortItemLine(25)>>
\* '7\t10' is a row of two fields; NaN stands for a user id without digits
TTFirstRows == <<RatingLine(7, 10, 5), RatingLine(7, 10, 2),
                 [fields |-> 2, u |-> 7, i |-> 10, r |-> 0],
                 RatingLine(NaN, 10, 5)>>
TTRatingRows(f) == <<TTFirstRows[f], RatingLine(7, 20, 4), RatingLine(8, 20, 3)>>
TTFileSets == 1..Len(TTFirstRows)

\* loadItems, lines 101-119: the keys of ST.items
ttLoadItems(text) ==
    LET kept == SelectSeq(text, IsItemLine)
    IN  { kept[n].id : n \in 1..Len(kept) }

\* the tab-separated fields of a row, by what parseInt and parseFloat read
\* in them: userId, itemId, rating, then the timestamp
FieldsOf(l) ==
    [k \in 1..l.fields |-> CASE k = 1 -> l.u [] k = 2 -> l.i [] k = 3 -> l.r [] OTHER -> 0]

\* the fields line.split('\t') finds in rows joined by line feeds: the last
\* field of a row and the first field of the next row are one field, in
\* which parseInt and parseFloat read the number before the line feed
RECURSIVE JoinedFields(_)
JoinedFields(text) ==
    IF Len(text) = 0 THEN <<>>
    ELSE IF Len(text) = 1 THEN FieldsOf(text[1])
    ELSE FieldsOf(text[1]) \o Tail(JoinedFields(Tail(text)))

\* text.split(/\r?\\n/), line 127: the separator is an optional CR, a
\* backslash and the letter n; a file whose rows end in line feeds has no
\* such sequence, so the whole text is one line, and line.split('\t') on
\* line 131 runs across the line feeds
SplitBackslashN(text) ==
    IF Len(text) = 0 THEN <<>>
    ELSE LET parts == JoinedFields(text)
             part(k) == IF k <= Len(parts) THEN parts[k] ELSE 0
         IN  <<[fields |-> Len(parts), u |-> part(1), i |-> part(2), r |-> part(3)]>>

\* loadRatings, lines 127-141: the new ST.interactionsRaw
ttLoadRatings(text, items) ==
    LET lines == SplitBackslashN(text)
        Keep(l) == l.fields >= 3 /\ IsFiniteLine(l) /\ l.i \in items
        kept == SelectSeq(lines, Keep)
    IN  [n \in 1..Len(kept) |->
           [userId |-> kept[n].u, itemId |-> kept[n].i, rating |-> kept[n].r]]

\* the distinct elements of a sequence in order of first occurrence
Distinct(seq) ==
    LET firsts == { n \in 1..Len(seq) : \A m \in 1..(n - 1) : seq[m] # seq[n] }
    IN  [k \in 1..Cardinality(firsts) |->
           seq[CHOOSE n \in firsts : Cardinality({ m \in firsts : m <= n }) = k]]

\* Array.prototype.sort((a, b) => a - b) of a set of numbers
RECURSIVE SortAsc(_)
SortAsc(set) ==
    IF set = {} THEN <<>>
    ELSE LET least == CHOOSE x \in set : \A y \in set : x <= y
         IN  <<least>> \o SortAsc(set \ {least})

\* the first pass over interactionsRaw, lines 163-175: rows whose user or item
\* has no index are skipped
PairsAbove(raw, userMap, itemMap, threshold) ==
    LET known == SelectSeq(raw, LAMBDA x : MapHas(userMap, x.userId)
                                            /\ MapHas(itemMap, x.itemId))
        pos == SelectSeq(known, LAMBDA x : x.rating >= threshold)
    IN  [positives |-> [n \in 1..Len(pos) |->
                          [u |-> userMap[pos[n].userId], i |-> itemMap[pos[n].itemId]]],
         userSeen |-> [u \in { userMap[known[n].userId] : n \in 1..Len(known) } |->
                         { itemMap[known[n].itemId] :
                             n \in { m \in 1..Len(known) :
                                       userMap[known[m].userId] = u } }]]

\* Map.get; -1 stands for the undefined a missing key gives
MapGet(m, key) == IF MapHas(m, key) THEN m[key] ELSE -1

\* the second pass, lines 183-190: no row is skipped
PairsFallback(raw, userMap, itemMap) ==
    LET pos == SelectSeq(raw, LAMBDA x : x.rating >= 3)
    IN  [positives |-> [n \in 1..Len(pos) |->
                          [u |-> MapGet(userMap, pos[n].userId),
                           i |-> MapGet(itemMap, pos[n].itemId)]],
         userSeen |-> [u \in { MapGet(userMap, raw[n].userId) : n \in 1..Len(raw) } |->
                         { MapGet(itemMap, raw[n].itemId) :
                             n \in { m \in 1..Len(raw) :
                                       MapGet(userMap, raw[m].userId) = u } }]]

\* line 182 with the relaxation to 3 switched off
NeedsFallbackNever(positives) == FALSE

\* line 182
NeedsFallback(positives) == Len(positives) < 1000

\* the sum of the ratings of the rows of known numbered in rows, by value
RECURSIVE RatingSum(_, _, _)
RatingSum(known, rows, values) ==
    IF values = {} THEN 0
    ELSE LET r == CHOOSE x \in values : TRUE
         IN  r * Cardinality({ n \in rows : known[n].rating = r })
               + RatingSum(known, rows, values \ {r})

\* lines 157-158, 173-174: the sum and the number of the ratings of the
\* item of index i
ItemAggregates(raw, userMap, itemMap, I) ==
    LET known == SelectSeq(raw, LAMBDA x : MapHas(userMap, x.userId)
                                            /\ MapHas(itemMap, x.itemId))
        rowsOf == [i \in 0..(I - 1) |->
                     { n \in 1..Len(known) : itemMap[known[n].itemId] = i }]
    IN  [itemCnt |-> [i \in 0..(I - 1) |-> Cardinality(rowsOf[i])],
         itemSum |-> [i \in 0..(I - 1) |->
                        RatingSum(known, rowsOf[i],
                                  { known[n].rating : n \in rowsOf[i] })]]

\* lines 144-193.  userMap, revUser, itemMap and revItem are not emptied:
\* set() overwrites, push() appends.
buildMappingsAndAggregates(st) ==
    LET users == Distinct([n \in 1..Len(st.interactionsRaw) |->
                             st.interactionsRaw[n].userId])
        items == SortAsc(st.items)
        userMap == [raw \in DOMAIN st.userMap \cup Range(users) |->
                      IF raw \in Range(users)
                      THEN (CHOOSE n \in 1..Len(users) : users[n] = raw) - 1
                      ELSE st.userMap[raw]]
        itemMap == [raw \in DOMAIN st.itemMap \cup Range(items) |->
                      IF raw \in Range(items)
                      THEN (CHOOSE n \in 1..Len(items) : items[n] = raw) - 1
                      ELSE st.itemMap[raw]]
        revItem == st.revItem \o items
        first == PairsAbove(st.interactionsRaw, userMap, itemMap, 4)
        built == IF NeedsFallback(first.positives)
                 THEN PairsFallback(st.interactionsRaw, userMap, itemMap)
                 ELSE first
        agg == ItemAggregates(st.interactionsRaw, userMap, itemMap, Len(revItem))
    IN  [st EXCEPT !.userMap = userMap, !.revUser = @ \o users,
                   !.itemMap = itemMap, !.revItem = revItem,
                   !.itemSum = agg.itemSum, !.itemCnt = agg.itemCnt,
                   !.positives = built.positives, !.userSeen = built.userSeen]

\* lines 546-551
pickUserRaw(st, minPos) ==
    LET enough == { u \in 0..(Len(st.revUser) - 1) :
                      Cardinality(Seen(st.userSeen, u)) >= minPos }
    IN  IF enough # {}
        THEN st.revUser[(CHOOSE u \in enough : \A v \in enough : u <= v) + 1]
        ELSE st.revUser[1]

\* every order in which the model can rank its numItems items, cut to k
RECURSIVE Rankings(_, _)
Rankings(items, k) ==
    IF k = 0 \/ items = {} THEN {<<>>}
    ELSE UNION { { <<i>> \o rest : rest \in Rankings(items \ {i}, k - 1) } : i \in items }

\* lines 449-455: the first K indices that are not in seen, with their raw ids
FilterSeen(indices, seen, revItem, K) ==
    LET unseen == SelectSeq(indices, LAMBDA i : i \notin seen)
    IN  [n \in 1..Min(K, Len(unseen)) |->
            [i |-> unseen[n], rawItemId |-> revItem[unseen[n] + 1]]]

\* index.html is not part of the sources: Load Data is clickable, the other
\* two buttons start in any state
InitTT ==
    /\ ST = InitST
    /\ \E f \in TTFileSets, t \in BOOLEAN, e \in BOOLEAN :
          tt = [IdlePage EXCEPT !.files = f, !.loadDisabled = FALSE,
                                !.trainDisabled = t, !.testDisabled = e]
    /\ IdleMF
    /\ splitRun = IdleSplit
    /\ recRun = IdleRec
    /\ IdleTW
    /\ unit = IdleUnit

\* click on Load Data (lines 502-506): up to the two fetches.  The button
\* stays enabled, so a click can come while an earlier one is being served.
TTLoadClick ==
    /\ ~tt.loadDisabled
    /\ tt.loadsStarted < MaxTTLoads
    /\ LET k == tt.loadsStarted + 1
       IN  tt' = [tt EXCEPT !.loadsStarted = k,
                            !.loads[k] = [pc |-> "waiting", items |-> "fetching",
                                          ratings |-> "fetching"],
                            !.status = "Loading data"]
    /\ UNCHANGED <<ST, notTT>>

\* Promise.all of click k resolves with the second of its files, parsed
\* into st: lines 507-514
TTLoadFinish(k, st) ==
    /\ ST' = buildMappingsAndAggregates(st)
    /\ tt' = [tt EXCEPT !.loads[k] = [pc |-> "returned", items |-> "done",
                                      ratings |-> "done"],
                        !.status = "Loaded", !.trainDisabled = FALSE]

\* the text of u.item arrives: loadItems lines 101-119.  The handler resumes
\* if it still waits and u.data has been parsed.
TTItemsArrive(k) ==
    /\ tt.loads[k].items = "fetching"
    /\ LET st == [ST EXCEPT !.items = ttLoadItems(TTItemLines)]
       IN  IF tt.loads[k].pc = "waiting" /\ tt.loads[k].ratings = "done"
           THEN TTLoadFinish(k, st)
           ELSE /\ ST' = st
                /\ tt' = [tt EXCEPT !.loads[k].items = "done"]
    /\ UNCHANGED notTT

\* the text of u.data arrives: loadRatings lines 127-141
TTRatingsArrive(k) ==
    /\ tt.loads[k].ratings = "fetching"
    /\ LET st == [ST EXCEPT !.interactionsRaw =
                               ttLoadRatings(TTRatingRows(tt.files), ST.items)]
       IN  IF tt.loads[k].pc = "waiting" /\ tt.loads[k].items = "done"
           THEN TTLoadFinish(k, st)
           ELSE /\ ST' = st
                /\ tt' = [tt EXCEPT !.loads[k].ratings = "done"]
    /\ UNCHANGED notTT

\* a fetch of click k is refused (lines 99, 125): the loader throws, and
\* Promise.all rejects if the handler still waits (line 515).  The other
\* loader goes on.
TTLoadFail(k, file) ==
    /\ tt.loads[k][file] = "fetching"
    /\ tt' = IF tt.loads[k].pc = "waiting"
             THEN [tt EXCEPT !.loads[k][file] = "failed", !.loads[k].pc = "returned",
                             !.status = "Load error"]
             ELSE [tt EXCEPT !.loads[k][file] = "failed"]
    /\ UNCHANGED <<ST, notTT>>

\* CONFIG.epochs and CONFIG.batchSize
TTEpochs == 4
TTBatchSize == 512

\* the trainStep calls of one train(): every epoch iterates over the batches
\* of ST.positives (lines 307-310, 248)
TotalBatches(st) == TTEpochs * CeilDiv(Len(st.positives), TTBatchSize)

\* buildModel, lines 226-242: the old instance is disposed, then a new one
\* is constructed
ttBuildModel(st, gen) ==
    [st EXCEPT !.model = [built |-> TRUE, numUsers |-> Len(st.revUser),
                          numItems |-> Len(st.revItem), gen |-> gen, optSteps |-> 0,
                          cached |-> FALSE]]

\* click on Train (lines 518-522, 226-242): up to await ensureTF_CPU()
TTTrainClick ==
    /\ ~tt.trainDisabled
    /\ tt.trainsStarted < MaxTTTrains
    /\ IF Len(ST.revUser) = 0 \/ Len(ST.revItem) = 0
       THEN /\ tt' = [tt EXCEPT !.status = "Load data first"]
            /\ ST' = ST
       ELSE LET k == tt.trainsStarted + 1
            IN  /\ ST' = ttBuildModel(ST, k)
                /\ tt' = [tt EXCEPT !.trainsStarted = k, !.runs[k].pc = "tf",
                                    !.liveModels = (IF ST.model.built THEN @ \ {ST.model.gen}
                                                    ELSE @) \cup {k}]
    /\ UNCHANGED notTT

\* train() after ensureTF_CPU (lines 295-305)
TTTrainBegin(k) ==
    /\ tt.runs[k].pc = "tf"
    /\ IF Len(ST.positives) = 0
       THEN tt' = [tt EXCEPT !.runs[k].pc = "returned",
                             !.status = "No positive pairs to train on"]
       ELSE tt' = [tt EXCEPT !.runs[k].pc = "training",
                             !.runs[k].startSteps = ST.model.optSteps,
                             !.loadDisabled = TRUE,
                             !.trainDisabled = TRUE, !.testDisabled = TRUE]
    /\ UNCHANGED <<ST, notTT>>

\* one batch of train(): ST.model.trainStep has applied the update of the
\* batch and dropped the cached item embeddings (lines 310-311, 2081, 2109)
TTTrainStep(k) ==
    /\ tt.runs[k].pc = "training"
    /\ tt.runs[k].steps < TotalBatches(ST)
    /\ ST' = [ST EXCEPT !.model.optSteps = @ + 1, !.model.cached = FALSE]
    /\ tt' = [tt EXCEPT !.runs[k].steps = @ + 1]
    /\ UNCHANGED notTT

\* the epochs are over (lines 328-334)
TTTrainDone(k) ==
    /\ tt.runs[k].pc = "training"
    /\ tt.runs[k].steps >= TotalBatches(ST)
    /\ tt' = [tt EXCEPT !.runs[k].pc = "returned", !.status = "Training complete",
                        !.loadDisabled = FALSE, !.trainDisabled = FALSE,
                        !.testDisabled = FALSE]
    /\ UNCHANGED <<ST, notTT>>

\* ST.model.trainStep rejects (line 311): the exception leaves train() and
\* is caught by the click handler (line 523), which sets the status only
TTTrainFail(k) ==
    /\ tt.runs[k].pc = "training"
    /\ tt.runs[k].steps < TotalBatches(ST)
    /\ tt' = [tt EXCEPT !.runs[k].pc = "failed", !.status = "Training error"]
    /\ UNCHANGED <<ST, notTT>>

\* click on Test (lines 526-529)
TTTestClick ==
    /\ ~tt.testDisabled
    /\ tt.testPc = "idle"
    /\ IF ~ST.model.built
       THEN tt' = [tt EXCEPT !.status = "Train model first"]
       ELSE tt' = [tt EXCEPT !.testPc = "tf"]
    /\ UNCHANGED <<ST, notTT>>

\* lines 531-534: up to await ensureTF_CPU() of getTopKDeep (line 446)
TTTestPick ==
    /\ tt.testPc = "tf"
    /\ LET rawUser == pickUserRaw(ST, 5)
       IN  tt' = [tt EXCEPT !.testPc = "deep", !.testUser = rawUser,
                            !.testUIdx = ST.userMap[rawUser]]
    /\ UNCHANGED <<ST, notTT>>

\* a call of ST.model.materializeItemEmbeddings that finds no cache, up to
\* await tf.nextFrame() (lines 2136-2146): a catalogue of at most 4096 items
\* is one chunk, computed before the wait
materializeItemEmbeddings(st) ==
    [gen |-> st.model.gen, numItems |-> st.model.numItems]

\* the instance when the call resumes: lines 2148-2153.  The chunk is a
\* tensor of its own, so the call stores it also when buildModel has
\* disposed the instance in the wait
Materialized(read, st) ==
    IF read.gen = st.model.gen THEN [st EXCEPT !.model.cached = TRUE] ELSE st

\* getTopKForUser from the matrix on, lines 2164-2169, and the loop of
\* getTopKDeep, lines 449-455: topk returns Math.min(K, numItems) indices
\* of the instance that was called, in any order the model may score them
TopKDeep(numItems, K, seen, revItem) ==
    { FilterSeen(indices, seen, revItem, TopK) :
        indices \in Rankings(0..(numItems - 1), Min(K, numItems)) }

\* getTopKDeep after ensureTF_CPU, lines 447-448 and 2162-2163.  With a
\* cache the matrix is returned at once (line 2137) and the handler goes on
\* to the tables (lines 535-539) and to await ensureTF_CPU() of drawItemPCA
\* (line 339); without one the call waits at tf.nextFrame()
TTGetTopKDeep ==
    /\ tt.testPc = "deep"
    /\ LET seen == Seen(ST.userSeen, tt.testUIdx)
           K == Min(Len(ST.revItem), Max(TopK * 5, 200))
       IN  IF ST.model.cached
           THEN \E deep \in TopKDeep(ST.model.numItems, K, seen, ST.revItem) :
                   tt' = [tt EXCEPT !.testPc = "pca", !.deepUser = tt.testUser,
                                    !.deep = deep]
           ELSE tt' = [tt EXCEPT !.testPc = "topk", !.testSeen = seen, !.testK = K,
                                 !.testRead = materializeItemEmbeddings(ST)]
    /\ UNCHANGED <<ST, notTT>>

\* tf.nextFrame() resolves: the matrix is stored (lines 2148-2153),
\* getTopKForUser and getTopKDeep go on with ST.revItem as it is now, and
\* the tables are rendered, up to await ensureTF_CPU() of drawItemPCA
TTTestFinish ==
    /\ tt.testPc = "topk"
    /\ \E deep \in TopKDeep(tt.testRead.numItems, tt.testK, tt.testSeen, ST.revItem) :
          tt' = [tt EXCEPT !.testPc = "pca", !.deepUser = tt.testUser, !.deep = deep]
    /\ ST' = Materialized(tt.testRead, ST)
    /\ UNCHANGED notTT

\* drawItemPCA from the matrix of numItems rows on, lines 350-378: fewer
\* than two rows return at once and the handler sets 'Done' (line 542);
\* otherwise tf.gather and the projection run up to await proj.array()
PcaOf(page, numItems) ==
    IF Min(PcaItems, numItems) < 2
    THEN [page EXCEPT !.testPc = "idle", !.status = "Done"]
    ELSE [page EXCEPT !.testPc = "array"]

\* drawItemPCA after ensureTF_CPU, lines 340-349: the page has the canvas.
\* With a cache the matrix is returned at once; without one the call waits
\* at tf.nextFrame()
TTDrawItemPCA ==
    /\ tt.testPc = "pca"
    /\ LET page == [tt EXCEPT !.status = "Computing PCA"]
       IN  IF ST.model.cached
           THEN tt' = PcaOf(page, ST.model.numItems)
           ELSE tt' = [page EXCEPT !.testPc = "gather",
                                   !.testRead = materializeItemEmbeddings(ST)]
    /\ UNCHANGED <<ST, notTT>>

\* tf.nextFrame() resolves in drawItemPCA: the matrix is stored, and the
\* status stays 'Computing PCA' while proj.array() is awaited
TTPcaGather ==
    /\ tt.testPc = "gather"
    /\ tt' = PcaOf(tt, tt.testRead.numItems)
    /\ ST' = Materialized(tt.testRead, ST)
    /\ UNCHANGED notTT

\* proj.array() resolves, lines 379-397 and 542: the points are tensors of
\* the call, so a model disposed in the wait does not fail the drawing
TTTestDone ==
    /\ tt.testPc = "array"
    /\ tt' = [tt EXCEPT !.testPc = "idle", !.status = "Done"]
    /\ UNCHANGED <<ST, notTT>>

NextTT ==
    \/ TTLoadClick
    \/ \E k \in 1..MaxTTLoads : TTItemsArrive(k)
    \/ \E k \in 1..MaxTTLoads : TTRatingsArrive(k)
    \/ \E k \in 1..MaxTTLoads, file \in {"items", "ratings"} : TTLoadFail(k, file)
    \/ TTTrainClick
    \/ \E k \in 1..MaxTTTrains : TTTrainBegin(k)
    \/ \E k \in 1..MaxTTTrains : TTTrainStep(k)
    \/ \E k \in 1..MaxTTTrains : TTTrainDone(k)
    \/ \E k \in 1..MaxTTTrains : TTTrainFail(k)
    \/ TTTestClick
    \/ TTTestPick
    \/ TTGetTopKDeep
    \/ TTTestFinish
    \/ TTDrawItemPCA
    \/ TTPcaGather
    \/ TTTestDone

SpecTT == InitTT /\ [][NextTT]_vars

\* C11: at most one set of parameters is live at any time, on either page,
\* and every training run enters its loop with an optimizer that has
\* applied no update yet.
C11_RetrainStartsFresh ==
    /\ Cardinality(tfjs.variables) <= 1
    /\ \A k \in 1..MaxCalls : inv[k].startSteps = 0
    /\ Cardinality(tt.liveModels) <= 1
    /\ \A k \in 1..MaxTTTrains : tt.runs[k].startSteps = 0

\* C8: the list getTopKDeep returned for a user holds no movie whose raw id
\* that user has rated in the loaded interactions.
C8_DeepSkipsRatedMovies ==
    \A n \in 1..Len(tt.deep) :
        tt.deep[n].rawItemId
           \notin { ST.interactionsRaw[m].itemId :
                      m \in { q \in 1..Len(ST.interactionsRaw) :
                                ST.interactionsRaw[q].userId = tt.deepUser } }


(***************************************************************************)
(* week4 app.js, TwoTowerModel (lines 1844-2207): the item-embedding cache *)
(* A matrix is the sequence of its chunks; a chunk is the versions of the  *)
(* parameters and of the features itemForward computed it from.            *)
(***************************************************************************)
ModelSizes == {3, 5000}

Current(m) == [p |-> m.paramVer, f |-> m.featVer]

\* lines 2175-2178
invalidateItemCache(m) ==
    [m EXCEPT !.cacheDirty = TRUE, !.cachedItemEmb = <<>>, !.hasCache = FALSE,
              !.cacheDisposed = FALSE]

\* one turn of the loop of lines 2140-2147, up to await tf.nextFrame()
MaterializeChunk(m, rd) ==
    [rd EXCEPT !.pc = "frame", !.chunks = Append(@, Current(m)),
               !.start = @ + 4096]

InitTW ==
    /\ \E n \in ModelSizes : tw = NewModel(n)
    /\ callers = NoCallers
    /\ IdleMF
    /\ splitRun = IdleSplit
    /\ recRun = IdleRec
    /\ ST = InitST /\ tt = IdlePage
    /\ unit = IdleUnit

\* a call rejects: tf.gather on a disposed variable throws in userForward
\* or itemForward (lines 1944, 1983)
Rejected(c, m) ==
    [c EXCEPT !.served = [kind |-> "disposed", matrix |-> <<>>, at |-> Current(m)]]

\* trainStep up to the await of line 2081: minimize has applied the update.
\* On a disposed instance the forward pass throws and nothing is updated.
TrainStepMinimize ==
    /\ callers.trainPc = "idle"
    /\ callers.trainSteps < MaxTrainSteps
    /\ IF tw.disposed
       THEN /\ tw' = tw
            /\ callers' = [Rejected(callers, tw) EXCEPT !.trainSteps = @ + 1]
       ELSE /\ tw' = [tw EXCEPT !.paramVer = @ + 1]
            /\ callers' = [callers EXCEPT !.trainPc = "minimized", !.trainSteps = @ + 1]
    /\ UNCHANGED notTW

\* this._cachedItemEmb.dispose(), lines 2150, 2177 and 2198: a
\* getTopKForUser that waits to multiply the cached tensor holds a disposed
\* tensor
DisposeCached(m, c) ==
    IF ~m.hasCache THEN c
    ELSE [c EXCEPT !.readers =
            [r \in 1..MaxReaders |->
                IF @[r].pc = "matMul" THEN [@[r] EXCEPT !.disposed = TRUE] ELSE @[r]]]

\* lines 2106-2111: up to await lossScalar.data()
TrainStepInvalidate ==
    /\ callers.trainPc = "minimized"
    /\ tw' = invalidateItemCache(tw)
    /\ callers' = [DisposeCached(tw, callers) EXCEPT !.trainPc = "lossData"]
    /\ UNCHANGED notTW

\* lines 2111-2113
TrainStepReturn ==
    /\ callers.trainPc = "lossData"
    /\ callers' = [callers EXCEPT !.trainPc = "idle"]
    /\ UNCHANGED <<tw, notTW>>

\* setFeatures with new genre matrices (lines 1899-1932)
SetFeatures ==
    /\ tw.featureSets < MaxFeatureSets
    /\ tw' = invalidateItemCache([tw EXCEPT !.featVer = @ + 1, !.featureSets = @ + 1])
    /\ callers' = DisposeCached(tw, callers)
    /\ UNCHANGED notTW

\* dispose(), lines 2193-2206: the variables, the genre matrices and the
\* cached matrix are disposed; _cachedItemEmb and _cacheDirty stay as they
\* are, so the instance goes on taking the disposed matrix for its cache
dispose ==
    /\ tw' = [tw EXCEPT !.disposed = TRUE, !.cacheDisposed = tw.hasCache]
    /\ callers' = DisposeCached(tw, callers)
    /\ UNCHANGED notTW

\* materializeItemEmbeddings of reader rd returns matrix: its caller has
\* the matrix, or getTopKForUser waits for the await of line 2163 to resume
Resolve(c, r, rd, matrix, m) ==
    IF rd.kind = "topk"
    THEN [c EXCEPT !.readers[r] = [rd EXCEPT !.pc = "matMul", !.chunks = matrix]]
    ELSE [c EXCEPT !.readers[r] = IdleReader,
                   !.served = [kind |-> rd.kind, matrix |-> matrix, at |-> Current(m)]]

\* a call of materializeItemEmbeddings, on its own or from getTopKForUser
\* (lines 2162-2163), up to its first await: the cache is returned as it
\* is, disposed or not, or the first chunk is computed.  On a disposed
\* instance getUserEmbedding (line 2162) and itemForward (line 2143) throw.
StartRead(r, kind) ==
    /\ callers.readers[r].pc = "idle"
    /\ IF tw.disposed /\ kind = "topk"
       THEN callers' = Rejected(callers, tw)
       ELSE IF ~tw.cacheDirty /\ tw.hasCache
       THEN callers' = Resolve(callers, r,
                               [IdleReader EXCEPT !.kind = kind,
                                                  !.disposed = tw.cacheDisposed],
                               tw.cachedItemEmb, tw)
       ELSE IF tw.disposed
       THEN callers' = Rejected(callers, tw)
       ELSE callers' = [callers EXCEPT !.readers[r] =
                           MaterializeChunk(tw, [IdleReader EXCEPT !.kind = kind])]
    /\ UNCHANGED <<tw, notTW>>

MaterializeItemEmbeddings(r) == StartRead(r, "materialize")

GetTopKForUser(r) == StartRead(r, "topk")

\* tf.nextFrame() resolves: the next chunk, which itemForward cannot
\* compute on a disposed instance, or lines 2148-2153, where the cache of
\* another call is disposed and replaced
MaterializeResume(r) ==
    LET rd == callers.readers[r]
    IN  /\ rd.pc = "frame"
        /\ IF rd.start < tw.numItems
           THEN /\ callers' = IF tw.disposed
                              THEN [Rejected(callers, tw) EXCEPT !.readers[r] = IdleReader]
                              ELSE [callers EXCEPT !.readers[r] = MaterializeChunk(tw, rd)]
                /\ tw' = tw
           ELSE /\ tw' = [tw EXCEPT !.cachedItemEmb = rd.chunks, !.hasCache = TRUE,
                                    !.cacheDirty = FALSE, !.cacheDisposed = FALSE]
                /\ callers' = Resolve(DisposeCached(tw, callers), r, rd, rd.chunks, tw)
        /\ UNCHANGED notTW

\* getTopKForUser resumes with the matrix, lines 2164-2169: tf.matMul
\* throws on a disposed tensor, or multiplies the matrix
TopKResume(r) ==
    LET rd == callers.readers[r]
    IN  /\ rd.pc = "matMul"
        /\ callers' = [callers EXCEPT
                         !.readers[r] = IdleReader,
                         !.served = IF rd.disposed
                                    THEN [kind |-> "disposed", matrix |-> <<>>,
                                          at |-> Current(tw)]
                                    ELSE [kind |-> "topk", matrix |-> rd.chunks,
                                          at |-> Current(tw)]]
        /\ UNCHANGED <<tw, notTW>>

NextTW ==
    \/ TrainStepMinimize
    \/ TrainStepInvalidate
    \/ TrainStepReturn
    \/ SetFeatures
    \/ dispose
    \/ \E r \in 1..MaxReaders : MaterializeItemEmbeddings(r)
    \/ \E r \in 1..MaxReaders : GetTopKForUser(r)
    \/ \E r \in 1..MaxReaders : MaterializeResume(r)
    \/ \E r \in 1..MaxReaders : TopKResume(r)

SpecTW == InitTW /\ [][NextTW]_vars

\* C9: every chunk of the matrix last returned by materializeItemEmbeddings
\* or multiplied in getTopKForUser was computed from the parameters and the
\* features that were current when the matrix was returned or multiplied.
C9_CacheNeverStale ==
    \A n \in 1..Len(callers.served.matrix) :
        callers.served.matrix[n] = callers.served.at

(***************************************************************************)
(* Claims about the matrix-factorisation page                              *)
(***************************************************************************)

\* C1: every entry of a list returned by recommendForUser is an item that
\* is not in userRatedItems of the list's user, and userRatedItems holds the
\* item of every parsed rating triple under the triple's user.
C1_RecommendSkipsRated ==
    /\ \A n \in 1..Len(ui.recs) :
          ui.recs[n].i \notin Seen(data.userRatedItems, ui.recs[n].u)
    /\ \A n \in 1..Len(data.ratingsTriples) :
          data.ratingsTriples[n].i
             \in Seen(data.userRatedItems, data.ratingsTriples[n].u)

\* a list was returned for a user who has rated items, after a cancelled run
\* and a second run
C1_Witness ==
    /\ Len(ui.recs) > 0
    /\ Seen(data.userRatedItems, ui.recs[1].u) # {}
    /\ calls = 2
    /\ \E k \in 1..MaxCalls : inv[k].outcome = "cancelled"

\* C2: while stopRequested stays set no optimizer step changes the
\* parameters, and when an onTrain call reports cancellation the parameters
\* are the ones that existed when onCancel set the flag: not reset, not
\* advanced.
C2_NoStepAfterCancel ==
    [][ /\ (state.stopRequested /\ state'.stopRequested /\ state'.P.gen = state.P.gen)
            => state'.P = state.P
        /\ \A k \in 1..MaxCalls :
             (inv[k].outcome # "cancelled" /\ inv'[k].outcome = "cancelled")
                => state'.P = hist'.paramsAtCancel ]_vars

\* C5: an onTrain call whose split has an empty half ends in the
\* empty-split report without an optimizer step or a validation pass, and
\* at that report state.trained is false, no step has been applied to the
\* parameters, Train is enabled and Cancel disabled.
C5_EmptySplitNeverTrains ==
    /\ [](\A k \in 1..MaxCalls :
            inv[k].emptySeen =>
               /\ inv[k].outcome = "emptySplit"
               /\ ~inv[k].stepped
               /\ ~inv[k].validated)
    /\ [][\A k \in 1..MaxCalls :
            (~inv[k].emptySeen /\ inv'[k].emptySeen) =>
               /\ ~state'.trained
               /\ state'.P.ver = 0
               /\ ui'.status = "Train/val split is empty"
               /\ ~ui'.trainDisabled
               /\ ui'.cancelDisabled]_vars

\* an onTrain call has met a split with an empty training half (one rating
\* parsed) and has reported it
C5_Witness ==
    /\ \E k \in 1..MaxCalls : inv[k].emptySeen /\ inv[k].outcome = "emptySplit"
    /\ Len(data.ratingsTriples) = 1
    /\ ~state.trained
    /\ ui.status = "Train/val split is empty"

\* C10: at most one onTrain call is inside trainLoop at any time.
C10_OneLoopAtATime ==
    Cardinality({ k \in 1..MaxCalls : InLoop(inv[k]) }) <= 1

\* C6: a click on Recommend while a training loop is in progress, or with
\* no completed run, only reports 'Train the model first.' and leaves the
\* table alone; so a table is only ever computed with no loop in progress.
C6_RecommendOnlyAfterCompletedRun ==
    [][OnRecommend =>
         IF (\E k \in 1..MaxCalls : InLoop(inv[k])) \/ ~state.trained
         THEN ui'.status = "Train the model first." /\ ui'.recs = ui.recs
         ELSE TRUE]_vars

\* C3: an onTrain call whose loop was running when onCancel was clicked
\* never ends other than cancelled: 'Training canceled.', Train enabled,
\* Cancel disabled, state.trained false.
C3_CancelEndsCancelled ==
    /\ [](\A k \in 1..MaxCalls :
            (inv[k].cancelSeen /\ inv[k].pc = "done") => inv[k].outcome = "cancelled")
    /\ [][\A k \in 1..MaxCalls :
            (inv[k].cancelSeen /\ inv[k].pc # "done" /\ inv'[k].pc = "done") =>
               /\ ui'.status = "Training canceled."
               /\ ~ui'.trainDisabled
               /\ ui'.cancelDisabled
               /\ ~state'.trained]_vars

\* C12: when an onTrain call has left trainLoop, whether the epochs ran out,
\* training was cancelled or the loop threw, no tensor the call created for
\* its batches and validation chunks (uBatch, iBatch, rBatch, the batch
\* loss, pred, err, the squared errors and their sum) is still live.
C12_LoopLeavesNoTensor ==
    \A k \in 1..MaxCalls :
        (inv[k].pc = "done" /\ inv[k].outcome \in {"complete", "cancelled", "error"})
            => inv[k].tensors = {}

\* C13: when trainLoop throws, onTrain reports the error, state.trained is
\* false, P, Q, bu, bi, mu and the optimizer are null and their variables
\* disposed, and Train is enabled.
C13_ThrowLeavesIdle ==
    [][\A k \in 1..MaxCalls :
         (inv[k].outcome # "error" /\ inv'[k].outcome = "error") =>
            /\ ui'.status = "Training error"
            /\ ~ui'.trainDisabled
            /\ ~state'.trained
            /\ state'.P = NoParams
            /\ state'.optimizer = NoOptimizer
            /\ tfjs'.variables = {}]_vars

\* C14: an onTrain call that has read a batch loss that is NaN or infinite
\* never ends in the completed outcome; when it ends, the status line
\* shows a training error and state.trained is false.
C14_NonFiniteLossFails ==
    /\ [](\A k \in 1..MaxCalls :
            inv[k].nonFiniteLoss => inv[k].outcome # "complete")
    /\ [][\A k \in 1..MaxCalls :
            (inv[k].nonFiniteLoss /\ inv[k].pc # "done" /\ inv'[k].pc = "done") =>
               /\ ui'.status = "Training error"
               /\ ~state'.trained]_vars

\* C20: no more than 2 optimizer steps are executed between one await
\* tf.nextFrame() and the next, whether the next is the one of line 281 or
\* the one of a validation chunk.
C20_YieldEveryTwoSteps ==
    tfjs.sinceFrame <= 2

(***************************************************************************)
(* script.js: the hyper-parameter fields read on their own                 *)
(***************************************************************************)
MaxFieldLen == 4    \* pieces in the text of a field

RECURSIVE Texts(_)
Texts(n) ==
    IF n = 0 THEN { <<>> }
    ELSE Texts(n - 1) \cup { Append(t, c) : t \in { x \in Texts(n - 1) : Len(x) = n - 1 }, c \in Pieces }

ParamFields == {"k", "epochs", "batchSize", "lr", "lambda"}

\* onTrain, lines 132-136: the value state gets from the text of a field
ReadParam(field, text) ==
    CASE field = "k" -> clampInt(parseInt(ReplaceComma(text)), 2, 128, 16)
      [] field = "epochs" -> clampInt(parseInt(ReplaceComma(text)), 1, 100, 15)
      [] field = "batchSize" -> clampInt(parseInt(ReplaceComma(text)), 64, 4096, 2048)
      [] field = "lr" -> clampFloat(parseFloat(ReplaceComma(text)), Dec(1, 0 - 5), Dec(5, 0 - 1), Dec(1, 0 - 2))
      [] field = "lambda" -> clampFloat(parseFloat(ReplaceComma(text)), Dec(0, 0), Dec(1, 0 - 1), Dec(1, 0 - 4))

InitClamp ==
    /\ \E field \in ParamFields, text \in Texts(MaxFieldLen) :
         unit = [pc |-> "read", field |-> field, text |-> text]
    /\ IdleMF
    /\ splitRun = IdleSplit
    /\ recRun = IdleRec
    /\ IdleTT

ClampField ==
    /\ unit.pc = "read"
    /\ unit' = [pc |-> "clamped", field |-> unit.field, text |-> unit.text,
                value |-> ReadParam(unit.field, unit.text)]
    /\ UNCHANGED notUnit

NextClamp == ClampField

SpecClamp == InitClamp /\ [][NextClamp]_vars

\* C15: whatever the text of a field, k, epochs and batchSize end in
\* [2,128], [1,100] and [64,4096], lr in [1e-5, 0.5] and lambda in [0, 0.1];
\* a text with no digit in it gives the default 16, 15, 2048, 0.01, 1e-4.
C15_HyperParamsInRange ==
    unit.pc = "clamped" =>
        LET noDigit == \A i \in 1..Len(unit.text) : unit.text[i] \notin Digits
            IntRange(field) ==
                CASE field = "k" -> [lo |-> 2, hi |-> 128, dflt |-> 16]
                  [] field = "epochs" -> [lo |-> 1, hi |-> 100, dflt |-> 15]
                  [] field = "batchSize" -> [lo |-> 64, hi |-> 4096, dflt |-> 2048]
            FloatRange(field) ==
                CASE field = "lr" -> [lo |-> Dec(1, -5), hi |-> Dec(5, -1), dflt |-> Dec(1, -2)]
                  [] field = "lambda" -> [lo |-> Dec(0, 0), hi |-> Dec(1, -1), dflt |-> Dec(1, -4)]
        IN  IF unit.field \in {"k", "epochs", "batchSize"}
            THEN LET r == IntRange(unit.field)
                 IN  /\ unit.value \in r.lo..r.hi
                     /\ noDigit => unit.value = r.dflt
            ELSE LET r == FloatRange(unit.field)
                 IN  /\ unit.value.ok
                     /\ ~Less(unit.value, r.lo)
                     /\ ~Less(r.hi, unit.value)
                     /\ noDigit => unit.value = r.dflt

\* a batch size above the range and a learning rate above the range have
\* been read
C15_Witness ==
    /\ unit.pc = "clamped"
    /\ \/ unit.field = "batchSize" /\ unit.text = <<"5", "0", "0", "0">> /\ unit.value = 4096
       \/ unit.field = "lr" /\ unit.text = <<"5", "e", "1">> /\ unit.value = Dec(5, 0 - 1)

(***************************************************************************)
(* app.js: buildMappingsAndAggregates run on its own                       *)
(***************************************************************************)
AggItems == 40      \* movies of u.item
FewRows == 2        \* most rows of u.data with one of the ratings 4, 3, 2
\* numbers of rows rated 5: none, and around the 1000 of line 182
ManyRows == {0, 997, 998, 999, 1000}

\* ST.interactionsRaw after loadRatings: a rows of rating 5, then b of
\* rating 4, c of rating 3 and d of rating 2, every user rating each movie
\* in turn
AggRows(a, b, c, d) ==
    [n \in 1..(a + b + c + d) |->
        [userId |-> 1 + (n - 1) \div AggItems,
         itemId |-> 10 * (1 + ((n - 1) % AggItems)),
         rating |-> IF n <= a THEN 5 ELSE IF n <= a + b THEN 4
                   ELSE IF n <= a + b + c THEN 3 ELSE 2]]

InitAgg ==
    /\ \E a \in ManyRows, b \in 0..FewRows, c \in 0..FewRows, d \in 0..FewRows :
         ST = [InitST EXCEPT !.items = { 10 * i : i \in 1..AggItems },
                             !.interactionsRaw = AggRows(a, b, c, d)]
    /\ unit = [pc |-> "loaded"]
    /\ tt = IdlePage
    /\ IdleTW
    /\ IdleMF
    /\ splitRun = IdleSplit
    /\ recRun = IdleRec

BuildAggregates ==
    /\ unit.pc = "loaded"
    /\ ST' = buildMappingsAndAggregates(ST)
    /\ unit' = [pc |-> "built"]
    /\ UNCHANGED <<mfVars, splitRun, recRun, tt, tw, callers>>

NextAgg == BuildAggregates

SpecAgg == InitAgg /\ [][NextAgg]_vars

\* C16: ST.positives is the loaded pairs of rating >= 4, in order, when there
\* are at least 1000 of them and the pairs of rating >= 3 otherwise; in both
\* cases ST.userSeen holds every loaded pair and itemSum and itemCnt the sum
\* and the number of all the ratings of each movie.
C16_PositivesByThreshold ==
    unit.pc = "built" =>
        LET raw == ST.interactionsRaw
            four == SelectSeq(raw, LAMBDA x : x.rating >= 4)
            three == SelectSeq(raw, LAMBDA x : x.rating >= 3)
            want == IF Len(four) >= 1000 THEN four ELSE three
        IN  /\ Len(ST.positives) = Len(want)
            /\ \A n \in 1..Len(want) :
                  ST.positives[n] = [u |-> ST.userMap[want[n].userId],
                                     i |-> ST.itemMap[want[n].itemId]]
            /\ DOMAIN ST.userSeen = { ST.userMap[raw[n].userId] : n \in 1..Len(raw) }
            /\ \A n \in 1..Len(raw) :
                  ST.itemMap[raw[n].itemId] \in ST.userSeen[ST.userMap[raw[n].userId]]
            /\ \A u \in DOMAIN ST.userSeen : \A i \in ST.userSeen[u] :
                  \E n \in 1..Len(raw) : /\ ST.userMap[raw[n].userId] = u
                                          /\ ST.itemMap[raw[n].itemId] = i
            /\ \A i \in 0..(AggItems - 1) :
                  LET rows == { n \in 1..Len(raw) : ST.itemMap[raw[n].itemId] = i }
                  IN  /\ ST.itemCnt[i] = Cardinality(rows)
                      /\ ST.itemSum[i] =
                            5 * Cardinality({ n \in rows : raw[n].rating = 5 })
                            + 4 * Cardinality({ n \in rows : raw[n].rating = 4 })
                            + 3 * Cardinality({ n \in rows : raw[n].rating = 3 })
                            + 2 * Cardinality({ n \in rows : raw[n].rating = 2 })

\* 1000 pairs of rating >= 4 and two of rating 3 were loaded: the threshold
\* stays at 4
C16_Witness ==
    /\ unit.pc = "built"
    /\ Len(ST.positives) = 1000
    /\ Len(SelectSeq(ST.interactionsRaw, LAMBDA x : x.rating = 3)) = 2

(***************************************************************************)
(* script.js: onLoadData over files with repeated and non-numeric ids      *)
(***************************************************************************)
InitOddLoad ==
    /\ files \in 1..(Len(RowCounts) + Len(OddFiles))
    /\ data = NoData
    /\ state = InitState
    /\ \E t \in BOOLEAN, c \in BOOLEAN, r \in BOOLEAN :
          ui = [trainDisabled |-> t, cancelDisabled |-> c, recDisabled |-> r,
                status |-> "Waiting to load", recs |-> <<>>]
    /\ inv = [k \in 1..MaxCalls |-> IdleInv]
    /\ calls = 0
    /\ loads = 0
    /\ hist = [paramsAtCancel |-> NoParams, built |-> 0]
    /\ tfjs = NewEngine
    /\ splitRun = IdleSplit
    /\ recRun = IdleRec
    /\ IdleTT
    /\ unit = IdleUnit

NextLoad ==
    \/ OnLoadClick
    \/ LoadDone
    \/ LoadFail

SpecLoad == InitOddLoad /\ [][NextLoad]_vars

\* C17: once onLoadData has run, every triple of ratingsTriples has its user
\* index in [0, state.U) and its item index in [0, state.I).
C17_TriplesWithinRowCounts ==
    state.loaded =>
        \A n \in 1..Len(data.ratingsTriples) :
            /\ data.ratingsTriples[n].u \in 0..(state.U - 1)
            /\ data.ratingsTriples[n].i \in 0..(state.I - 1)

(***************************************************************************)
(* app.js: TwoTowerModel.setFeatures called twice on one model             *)
(***************************************************************************)
\* genre matrices: rows of genre counts
ItemMats == { << <<3, 4>> >>, << <<1, 0>>, <<1, 1>> >>, << <<0, 0>> >> }
UserMats == { << <<1, 1>> >>, << <<0, 2>> >> }

\* an argument of setFeatures: absent, a number[][] or a tf.Tensor the
\* caller made (its place in the heap)
NoFeature == [kind |-> "none", rows |-> <<>>, id |-> 0]
ArrayOf(rows) == [kind |-> "array", rows |-> rows, id |-> 0]
TensorAt(id, rows) == [kind |-> "tensor", rows |-> rows, id |-> id]

\* The value of a tensor: every row is v / sqrt(den2).
RawValue(rows) == [r \in 1..Len(rows) |-> [v |-> rows[r], den2 |-> 1]]

SumSq(v) == IF Len(v) = 0 THEN 0 ELSE v[1] * v[1] + (IF Len(v) > 1 THEN v[2] * v[2] ELSE 0)

\* tf.linalg.l2Normalize(x, 1): every row divided by its norm; a row of
\* zeros stays a row of zeros
l2Normalize(val) ==
    [r \in 1..Len(val) |->
        [v |-> val[r].v, den2 |-> IF SumSq(val[r].v) = 0 THEN 1 ELSE SumSq(val[r].v)]]

\* The heap of tensors: heap[id] is the tensor of number id.
NewTensor(heap, val) == Append(heap, [live |-> TRUE, val |-> val])
Dispose(heap, id) == IF id = 0 THEN heap ELSE [heap EXCEPT ![id].live = FALSE]

\* to2D, lines 1902-1912: a tensor is returned as it is
to2D(heap, given) ==
    IF given.kind = "tensor" THEN [id |-> given.id, heap |-> heap]
    ELSE [id |-> Len(heap) + 1, heap |-> NewTensor(heap, RawValue(given.rows))]

\* lines 1914-1921 and 1922-1929 for one of the two matrices: the old
\* matrix is disposed, the new one taken from the argument and normalised.
\* Normalising a disposed tensor throws.
setGenreMat(heap, old, given, normalizeRows) ==
    LET h1 == Dispose(heap, old)
        t == to2D(h1, given)
    IN  IF ~normalizeRows THEN [id |-> t.id, heap |-> t.heap, threw |-> FALSE]
        ELSE IF ~t.heap[t.id].live THEN [id |-> t.id, heap |-> t.heap, threw |-> TRUE]
        ELSE [id |-> Len(t.heap) + 1,
              heap |-> NewTensor(t.heap, l2Normalize(t.heap[t.id].val)),
              threw |-> FALSE]

\* a model just constructed, lines 1878-1890
NewFeatures == [itemGenreMat |-> 0, userGenreMat |-> 0, numGenres |-> 0, cacheDirty |-> TRUE]

\* setFeatures, lines 1899-1932
setFeatures(m, heap, p) ==
    LET it == IF p.itemGenres.kind = "none"
              THEN [id |-> m.itemGenreMat, heap |-> heap, threw |-> FALSE]
              ELSE setGenreMat(heap, m.itemGenreMat, p.itemGenres, p.normalizeRows)
        m1 == IF p.itemGenres.kind = "none" THEN m
              ELSE [m EXCEPT !.itemGenreMat = it.id,
                             !.numGenres = Len(p.itemGenres.rows[1])]
        us == IF p.userGenres.kind = "none" \/ it.threw
              THEN [id |-> m.userGenreMat, heap |-> it.heap, threw |-> it.threw]
              ELSE setGenreMat(it.heap, m.userGenreMat, p.userGenres, p.normalizeRows)
        m2 == IF p.userGenres.kind = "none" \/ it.threw THEN m1
              ELSE [m1 EXCEPT !.userGenreMat = us.id,
                              !.numGenres = IF us.threw \/ @ # 0 THEN @
                                            ELSE Len(p.userGenres.rows[1])]
    IN  [m |-> IF us.threw THEN m2 ELSE [m2 EXCEPT !.cacheDirty = TRUE], heap |-> us.heap]

\* what userForward and itemForward read of the features: the values of the
\* two matrices, or that a matrix is disposed
Held(heap, id) ==
    IF id = 0 THEN [set |-> FALSE, live |-> FALSE, val |-> <<>>]
    ELSE IF heap[id].live THEN [set |-> TRUE, live |-> TRUE, val |-> heap[id].val]
    ELSE [set |-> TRUE, live |-> FALSE, val |-> <<>>]
FeaturesRead(m, heap) ==
    [item |-> Held(heap, m.itemGenreMat), user |-> Held(heap, m.userGenreMat),
     numGenres |-> m.numGenres]

\* the arguments: each matrix absent, an array or a tensor of the caller
FeatureArgs ==
    { [itemGenres |-> i, userGenres |-> u, normalizeRows |-> n] :
        i \in {NoFeature} \cup { ArrayOf(r) : r \in ItemMats }
                          \cup { TensorAt(1, r) : r \in ItemMats },
        u \in {NoFeature} \cup { ArrayOf(r) : r \in UserMats }
                          \cup { TensorAt(2, r) : r \in UserMats },
        n \in BOOLEAN }

\* the tensors of the caller: number 1 for the items, number 2 for the users
CallerHeap(p) ==
    << [live |-> p.itemGenres.kind = "tensor", val |-> RawValue(p.itemGenres.rows)],
       [live |-> p.userGenres.kind = "tensor", val |-> RawValue(p.userGenres.rows)] >>

InitFeat ==
    /\ \E p \in FeatureArgs :
         unit = [pc |-> "new", p |-> p, heap |-> CallerHeap(p), m |-> NewFeatures,
                 once |-> FeaturesRead(NewFeatures, CallerHeap(p))]
    /\ IdleMF
    /\ splitRun = IdleSplit
    /\ recRun = IdleRec
    /\ IdleTT

\* model.setFeatures(p), the first call and the second
CallSetFeatures ==
    /\ unit.pc \in {"new", "once"}
    /\ LET after == setFeatures(unit.m, unit.heap, unit.p)
       IN  unit' = [unit EXCEPT !.pc = IF unit.pc = "new" THEN "once" ELSE "twice",
                                !.m = after.m, !.heap = after.heap,
                                !.once = IF unit.pc = "new"
                                         THEN FeaturesRead(after.m, after.heap) ELSE @]
    /\ UNCHANGED notUnit

NextFeat == CallSetFeatures

SpecFeat == InitFeat /\ [][NextFeat]_vars

\* C18: after a second setFeatures with the same arguments, itemGenreMat and
\* userGenreMat hold the live values they held after the first.
C18_SetFeaturesTwiceSameState ==
    unit.pc = "twice" => FeaturesRead(unit.m, unit.heap) = unit.once

(***************************************************************************)
(* app.js: TwoTowerModel._sampleNegatives run on its own                   *)
(***************************************************************************)
MaxNegItems == 3    \* numItems of the model
MaxNegBatch == 2    \* positives in a batch
RngStates == 2      \* states of Math.random; every call moves to the next

\* the batches of at most n positive item indices of a model of numItems items
RECURSIVE PosBatches(_, _)
PosBatches(numItems, n) ==
    IF n = 0 THEN { <<>> }
    ELSE PosBatches(numItems, n - 1)
         \cup { Append(b, i) : b \in { x \in PosBatches(numItems, n - 1) : Len(x) = n - 1 },
                               i \in 0..(numItems - 1) }

InitNeg ==
    /\ \E numItems \in 1..MaxNegItems, rng \in 0..(RngStates - 1) :
         \E posItemIdxs \in PosBatches(numItems, MaxNegBatch) :
            unit = [pc |-> "for", numItems |-> numItems, posItemIdxs |-> posItemIdxs,
                    k |-> 0, neg |-> 0, out |-> <<>>, rng |-> rng]
    /\ IdleMF
    /\ splitRun = IdleSplit
    /\ recRun = IdleRec
    /\ IdleTT

\* lines 2183-2185: the test of the for loop, then pos and neg of position k
NegFor ==
    /\ unit.pc = "for"
    /\ IF unit.k < Len(unit.posItemIdxs)
       THEN unit' = [unit EXCEPT !.pc = "while", !.neg = unit.posItemIdxs[unit.k + 1]]
       ELSE unit' = [unit EXCEPT !.pc = "returned"]
    /\ UNCHANGED notUnit

\* line 2187: neg === pos, so (Math.random() * this.numItems) | 0 is drawn; it is d
NegDraw(d) ==
    /\ unit.pc = "while"
    /\ unit.neg = unit.posItemIdxs[unit.k + 1]
    /\ d \in 0..(unit.numItems - 1)
    /\ unit' = [unit EXCEPT !.neg = d, !.rng = (@ + 1) % RngStates]
    /\ UNCHANGED notUnit

\* lines 2187-2188: neg differs from pos, the loop ends and out[k] = neg
NegStore ==
    /\ unit.pc = "while"
    /\ unit.neg # unit.posItemIdxs[unit.k + 1]
    /\ unit' = [unit EXCEPT !.pc = "for", !.out = Append(@, unit.neg), !.k = @ + 1]
    /\ UNCHANGED notUnit

NextNeg ==
    \/ NegFor
    \/ \E d \in 0..(MaxNegItems - 1) : NegDraw(d)
    \/ NegStore

\* The function runs on without interruption, and Math.random gives every
\* index again and again.
FairNeg ==
    /\ WF_vars(NegFor)
    /\ WF_vars(NegStore)
    /\ \A d \in 0..(MaxNegItems - 1) : SF_vars(NegDraw(d))

SpecNeg == InitNeg /\ [][NextNeg]_vars /\ FairNeg

\* C19: for every batch and every numItems >= 1 the function returns, with
\* every negative in [0, numItems) and, when numItems >= 2, different from
\* the positive of its position.
C19_NegativesReturned ==
    <>(/\ unit.pc = "returned"
       /\ Len(unit.out) = Len(unit.posItemIdxs)
       /\ \A n \in 1..Len(unit.out) :
             /\ unit.out[n] \in 0..(unit.numItems - 1)
             /\ unit.numItems >= 2 => unit.out[n] # unit.posItemIdxs[n])

\* C21: when the step loop of an epoch has run all its steps, the batches of
\* the epoch number ceil(|trainIdx| / batchSize) and their lengths add up to
\* |trainIdx|: every position of trainIdx went into exactly one batch.
C21_EpochCoversTrainIdx ==
    \A k \in 1..MaxCalls :
        (inv[k].pc \in {"valData", "valFrame"} /\ inv[k].step = inv[k].stepsPerEpoch)
            => /\ inv[k].covered = inv[k].nTrain
               /\ inv[k].step = CeilDiv(inv[k].nTrain, state.batchSize)


\* C22: an onTrain call that rejects the split as empty has allocated nothing
\* and touched no model: the parameters, the optimizer, state.trained and the
\* set of live tf variables are what they were before the call resumed.
C22_EmptySplitAllocatesNothing ==
    [][\A k \in 1..MaxCalls :
          (inv[k].outcome # "emptySplit" /\ inv'[k].outcome = "emptySplit")
              => /\ state'.P = state.P
                 /\ state'.optimizer = state.optimizer
                 /\ state'.trained = state.trained
                 /\ tfjs'.variables = tfjs.variables]_vars

\* C23: when the check at the start of a batch (line 239) finds
\* state.stopRequested with batches of the epoch left to run, the loop ends
\* there: the call does not go on to computeSplitRMSE for that epoch.
C23_StopAtBatchStartEndsLoop ==
    [][\A k \in 1..MaxCalls :
          LET atBatchStart ==
                  \/ inv[k].pc = "frame"
                  \/ inv[k].pc = "mseData" /\ ~YieldsAfter(inv[k].step)
          IN  (/\ atBatchStart
               /\ inv'[k] # inv[k]
               /\ state.stopRequested
               /\ inv[k].step + 1 < inv[k].stepsPerEpoch)
                  => inv'[k].pc \notin {"valData", "valFrame"}]_vars

\* C28: a run is reported as cancelled only if a check of state.stopRequested
\* made it skip at least one scheduled batch; a run whose every scheduled
\* optimizer step was executed ends as complete.
C28_CancelledOnlyIfBatchSkipped ==
    \A k \in 1..MaxCalls : inv[k].outcome = "cancelled" => inv[k].skipped

(***************************************************************************)
(* script.js: the training loss of an epoch (lines 235-287).  mse is in    *)
(* hundredths, lambda in ten-thousandths, the sum of squares of the        *)
(* gathered rows in units, and a cost in millionths.                       *)
(***************************************************************************)
MaxLossSteps == 3

\* lines 248-266: the value the function passed to minimize returns,
\* tf.add(mse, reg) with reg = lambda * (sum of the four sums of squares)
BatchCost(mse, lambda, sumSq) == mse * 10000 + lambda * sumSq * 100

\* lines 132-136 and 235-236: lambda is 0, the default 1e-4 or 0.1
InitLoss ==
    /\ \E lambda \in {0, 1, 1000} :
         unit = [pc |-> "step", lambda |-> lambda, step |-> 0,
                 mseSum |-> 0, count |-> 0, pureSum |-> 0,
                 trainMSE |-> [num |-> 0, den |-> 1]]
    /\ IdleMF
    /\ splitRun = IdleSplit
    /\ recRun = IdleRec
    /\ IdleTT

\* one step of the loop, lines 238-276: a batch of end - start = size rows
\* whose mean squared error is mse and whose gathered rows have the sum of
\* squares sumSq; pureSum adds up mse * size for comparison
LossStep ==
    /\ unit.pc = "step"
    /\ unit.step < MaxLossSteps
    /\ \E size \in {1, 64}, mse \in {0, 25, 100}, sumSq \in {1, 30} :
         LET mseVal == BatchCost(mse, unit.lambda, sumSq)
         IN  unit' = [unit EXCEPT !.step = @ + 1,
                                  !.mseSum = @ + mseVal * size,
                                  !.count = @ + size,
                                  !.pureSum = @ + mse * size]
    /\ UNCHANGED notUnit

\* line 287 after the last step: the quotient under Math.sqrt
LossReport ==
    /\ unit.pc = "step"
    /\ unit.step > 0
    /\ unit' = [unit EXCEPT !.pc = "reported",
                            !.trainMSE = [num |-> unit.mseSum, den |-> Max(1, unit.count)]]
    /\ UNCHANGED notUnit

NextLoss ==
    \/ LossStep
    \/ LossReport

SpecLoss == InitLoss /\ [][NextLoss]_vars

\* C24: the train RMSE reported for an epoch is the square root of the
\* size-weighted mean of the batches' mean squared errors, without the L2
\* penalty, for every lambda in [0, 0.1]: the quotient under the root equals
\* sum(mse_b * size_b) / sum(size_b).
C24_TrainRmseIsPureMse ==
    unit.pc = "reported"
        => unit.trainMSE = [num |-> unit.pureSum * 10000, den |-> unit.count]

\* C25: when a training step of the two-tower page throws, with no other
\* train() call in its loop, the page is back in its state before training:
\* the Load Data and Train buttons are enabled again.
C25_TrainErrorRestoresButtons ==
    [][\A k \in 1..MaxTTTrains :
          (/\ tt.runs[k].pc = "training"
           /\ tt'.runs[k].pc = "failed"
           /\ \A j \in 1..MaxTTTrains : tt'.runs[j].pc # "training")
              => ~tt'.loadDisabled /\ ~tt'.trainDisabled]_vars

(***************************************************************************)
(* week4 app.js: recommendForRawUser (lines 1415-1439) on a model whose    *)
(* scores for the user are all different.                                  *)
(***************************************************************************)
\* the score of line 2165 for item i of a catalogue of numItems items: the
\* scores are a permutation of 0..numItems-1 (mult is prime to numItems)
ScoreOf(i, numItems, mult) == (i * mult) % numItems

\* tf.topk(scores, Math.min(K, this.numItems), true) of line 2166: the
\* indices by descending score; with these scores the index at position p
\* is the one whose score is numItems - p
topk(numItems, mult, K) ==
    [p \in 1..Min(K, numItems) |->
        CHOOSE i \in 0..(numItems - 1) : ScoreOf(i, numItems, mult) = numItems - p]

\* ST.userSeen.get(u): the user has rated the `rated` best-scored items of
\* the catalogue, or the `rated` worst-scored ones
SeenOf(numItems, mult, rated, best) ==
    { i \in 0..(numItems - 1) :
        IF best THEN ScoreOf(i, numItems, mult) >= numItems - rated
        ELSE ScoreOf(i, numItems, mult) < rated }

\* the raw id a script has put in place of every id of ST.revItem
ScriptShift == 1000

\* ST.revItem: the raw id of index i is i + 1, or what a script has assigned
RevItemOf(numItems, shift) == [n \in 1..numItems |-> n + shift]

\* K is 1..50 (line 1498); catalogues below and above max(5 * K, 200).
\* seen is the set read at line 1421; cleared and shift are ST.userSeen and
\* ST.revItem as scripts have left them.
InitRaw ==
    /\ \E numItems \in {3, 200, 205, 260}, K \in {1, 10, 50}, mult \in {1, 7},
          best \in BOOLEAN :
         \E rated \in {0, 1, 2, 150, 190, 191, 195, 199, 200, 204} \cap 0..numItems :
            unit = [pc |-> "call", numItems |-> numItems, K |-> K, mult |-> mult,
                    rated |-> rated, best |-> best, seen |-> {}, cleared |-> FALSE,
                    shift |-> 0, out |-> <<>>]
    /\ IdleMF
    /\ splitRun = IdleSplit
    /\ recRun = IdleRec
    /\ IdleTT

\* recommendForRawUser for a known user of a built model, lines 1416-1422:
\* up to the await of getTopKForUser, with the user's set read
RecommendForRawUser ==
    /\ unit.pc = "call"
    /\ unit' = [unit EXCEPT !.pc = "topk",
                            !.seen = IF unit.cleared THEN {}
                                     ELSE SeenOf(unit.numItems, unit.mult,
                                                 unit.rated, unit.best)]
    /\ UNCHANGED notUnit

\* a script assigns ST.revItem and the user's entry of ST.userSeen through
\* the exported window._tt.ST (line 1510), before, during or after the call
AssignExportedST ==
    /\ unit.shift = 0
    /\ unit' = [unit EXCEPT !.shift = ScriptShift, !.cleared = TRUE]
    /\ UNCHANGED notUnit

\* getTopKForUser resolves, lines 1424-1438: the indices are filtered by the
\* set read before the wait and mapped by ST.revItem as it is now
RecommendResume ==
    /\ unit.pc = "topk"
    /\ LET indices == topk(unit.numItems, unit.mult,
                           Min(unit.numItems, Max(unit.K * 5, 200)))
       IN  unit' = [unit EXCEPT !.pc = "returned",
                                !.out = FilterSeen(indices, unit.seen,
                                                   RevItemOf(unit.numItems, unit.shift),
                                                   unit.K)]
    /\ UNCHANGED notUnit

NextRaw ==
    \/ RecommendForRawUser
    \/ AssignExportedST
    \/ RecommendResume

SpecRaw == InitRaw /\ [][NextRaw]_vars

\* C27: recommendForRawUser returns exactly min(K, number of unrated items)
\* entries, and they are the best-scored unrated items of the whole
\* catalogue in descending order of score, however many rated items are
\* among the top max(5 * K, 200).  The ids and the rated set are those of
\* the loaded data: calls during which no script has assigned ST.
C27_RawUserGetsTopUnrated ==
    unit.pc = "returned" /\ unit.shift = 0
        => LET seen == SeenOf(unit.numItems, unit.mult, unit.rated, unit.best)
               wanted == FilterSeen(topk(unit.numItems, unit.mult, unit.numItems), seen,
                                    RevItemOf(unit.numItems, 0), unit.K)
           IN  /\ Len(unit.out) = Min(unit.K, unit.numItems - Cardinality(seen))
               /\ unit.out = wanted

(***************************************************************************)
(* week4 app.js: the Train handler that reads the hyper-parameters from    *)
(* the page (lines 1470-1490), with batchIterator (1371-1387) and train    *)
(* (1389-1412).  The texts typed here are whole numbers.                   *)
(***************************************************************************)
MaxPairs == 3        \* ST.positives.length is 1..MaxPairs
MaxStepCount == 4    \* the count of trainStep calls stops at this value

\* getNum, lines 1474-1478, for a text that reads as a whole number or as
\* no number
getNum(text, dflt) ==
    LET v == parseFloat(ReplaceComma(text))
    IN  IF v.ok THEN v.m * Pow10(v.e) ELSE dflt

RECURSIVE trainEpoch(_)

\* batchIterator from the test of its for loop (line 1377) with the given
\* start, up to the call of trainStep on the batch it yields (line 1399);
\* when the loop is over, the rest of the epoch and the next one
batchIterator(u, start) ==
    IF start < u.pairs
    THEN LET end == Min(u.pairs, start + u.batchSize)
         IN  IF end - start < 0
             THEN [u EXCEPT !.pc = "returned", !.status = "Training error"]
             ELSE [u EXCEPT !.pc = "trainStep", !.start = start, !.size = end - start,
                            !.steps = Min(@ + 1, MaxStepCount)]
    ELSE trainEpoch([u EXCEPT !.epoch = @ + 1])

\* the head of the epoch loop of train (line 1395), then lines 1410-1411
trainEpoch(u) ==
    IF u.epoch <= u.epochs
    THEN batchIterator(u, 0)
    ELSE [u EXCEPT !.pc = "returned", !.status = "Training complete"]

\* emptyOk: trainStep on a batch of no rows returns a loss (TF.js accepts
\* tensors of length 0) instead of throwing
InitFields ==
    /\ \E batchText \in {<<"0">>, <<"-", "1">>, <<"1">>, <<"5">>, <<>>, <<"e">>},
          epochsText \in {<<"0">>, <<"-", "1">>, <<"1">>, <<"5">>, <<>>},
          pairs \in 1..MaxPairs, emptyOk \in BOOLEAN :
         unit = [pc |-> "idle", batchText |-> batchText, epochsText |-> epochsText,
                 pairs |-> pairs, emptyOk |-> emptyOk, batchSize |-> 2048,
                 epochs |-> 10, epoch |-> 0, start |-> 0, size |-> 0, steps |-> 0,
                 status |-> "Loaded"]
    /\ IdleMF
    /\ splitRun = IdleSplit
    /\ recRun = IdleRec
    /\ IdleTT

\* click on Train with data loaded: lines 1472-1486 and train() up to its
\* first await
FieldsTrainClick ==
    /\ unit.pc = "idle"
    /\ unit' = trainEpoch([unit EXCEPT !.epochs = getNum(unit.epochsText, 10),
                                       !.batchSize = getNum(unit.batchText, 2048),
                                       !.epoch = 1, !.status = "Training"])
    /\ UNCHANGED notUnit

\* ST.model.trainStep settles (line 1399): up to await tf.nextFrame(), or
\* the exception reaches the catch of line 1487
FieldsTrainStep ==
    /\ unit.pc = "trainStep"
    /\ IF unit.size = 0 /\ ~unit.emptyOk
       THEN unit' = [unit EXCEPT !.pc = "returned", !.status = "Training error"]
       ELSE unit' = [unit EXCEPT !.pc = "nextFrame"]
    /\ UNCHANGED notUnit

\* tf.nextFrame() of line 1404 resolves: start += batchSize and the test of
\* the for loop
FieldsNextFrame ==
    /\ unit.pc = "nextFrame"
    /\ unit' = batchIterator(unit, unit.start + unit.batchSize)
    /\ UNCHANGED notUnit

NextFields ==
    \/ FieldsTrainClick
    \/ FieldsTrainStep
    \/ FieldsNextFrame

\* promises settle
FairFields == WF_vars(FieldsTrainStep) /\ WF_vars(FieldsNextFrame)

SpecFields == InitFields /\ [][NextFields]_vars /\ FairFields

\* C26: whatever finite numbers the batch-size and epochs fields hold, the
\* batch size train() works with is within [64, 4096], and a train() that
\* has called trainStep ends, with 'Training complete' or a reported error.
C26_TrainEndsForEveryField ==
    /\ [](unit.pc \in {"trainStep", "nextFrame"} => unit.batchSize \in 64..4096)
    /\ (unit.pc = "trainStep" ~> unit.pc = "returned")

\* C29: however often Load Data has run on the same files, the two-tower
\* page holds each raw id once: revUser and revItem list every raw id of
\* userMap and itemMap exactly once, so the counts, the dense indices and
\* everything sized by them are those of a single load.
C29_ReloadKeepsOneIndexPerRawId ==
    /\ Len(ST.revUser) = Cardinality(DOMAIN ST.userMap)
    /\ Len(ST.revItem) = Cardinality(DOMAIN ST.itemMap)
    /\ \A n \in 1..Len(ST.revUser) : ST.userMap[ST.revUser[n]] = n - 1
    /\ \A n \in 1..Len(ST.revItem) : ST.itemMap[ST.revItem[n]] = n - 1

\* C30: recommendForUser returns exactly min(topN, I - |S|) entries, none of
\* them rated, the entry at position p (from 0) with rank p + 1, in
\* descending order of pred with equal preds in ascending item index, and
\* no unrated item left out comes before any entry in that order.  A NaN
\* prediction is neither above nor equal to any prediction.
C30_TopNRankedUnrated ==
    recRun.pc = "done"
        => LET recs == recRun.recs
               predOf(i) == clipByValue(base(recRun.par, i), 1000, 5000)
               before(i, p, j, q) == p # NaN /\ q # NaN /\ (p > q \/ (p = q /\ i < j))
           IN  /\ Len(recs) = Min(recRun.topN, RecItems - Cardinality(recRun.seen))
               /\ \A n \in 1..Len(recs) :
                     /\ recs[n].rank = n
                     /\ recs[n].i \in (0..(RecItems - 1)) \ recRun.seen
                     /\ recs[n].pred = predOf(recs[n].i)
               /\ \A n \in 1..(Len(recs) - 1) :
                     before(recs[n].i, recs[n].pred, recs[n + 1].i, recs[n + 1].pred)
               /\ \A j \in (0..(RecItems - 1)) \ recRun.seen :
                     (\A n \in 1..Len(recs) : recs[n].i # j)
                        => \A n \in 1..Len(recs) :
                              before(recs[n].i, recs[n].pred, j, predOf(j))
====
